---- MODULE Spec2Model ----
(***************************************************************************)
(* Model of the luster thread core (src/src/thread.rs): the operand stack, *)
(* the call frames, the open-upvalue map, the opcode dispatcher step_lua,  *)
(* closure and callback calls, callback stepping, unwind, and the          *)
(* resumables produced by call_closure.                                    *)
(*                                                                         *)
(* Stack indices, register numbers, program counters and constant indices  *)
(* are 0-based as in the source; a TLA+ sequence s holds index i at s[i+1].*)
(***************************************************************************)
EXTENDS Integers, Sequences, FiniteSets, TLC

\* ------------------------------------------------------------------ bounds
\* number of call_closure invocations the host makes in one run
MaxSeqs == 2
\* largest granularity the host passes to call_closure
MaxGran == 2
MaxLimit == 3
MaxBody == 4
\* a granularity no program of the model exhausts: more than its opcode count
BigGran == 40

\* ------------------------------------------------------------------ values
\* the threads of the host; it runs its programs on the first and calls the
\* closures they hand out on either
Threads == {1, 2}
HostThreads == {1}

\* Value: n is the number of an Integer, f the prototype of a Closure or the
\* name of a Callback, uv the upvalue cells of a Closure
Nil == [tag |-> "Nil", n |-> 0, f |-> "", uv |-> <<>>]
IntV(k) == [tag |-> "Integer", n |-> k, f |-> "", uv |-> <<>>]
ClosureV(p, uvs) == [tag |-> "Closure", n |-> 0, f |-> p, uv |-> uvs]
CallbackV(c) == [tag |-> "Callback", n |-> 0, f |-> c, uv |-> <<>>]
\* a Table value is a reference to a table; n names the table
TableV(id) == [tag |-> "Table", n |-> id, f |-> "", uv |-> <<>>]

\* Table::get on the tables of the host: table 1 maps the key 1 to 11 and the
\* key 2 to 22; a key that is absent reads as Nil
get(table, key) ==
  IF table.n = 1 /\ key.tag = "Integer" /\ key.n \in {1, 2} THEN IntV(11 * key.n)
  ELSE Nil

\* VarCount: a fixed count k >= 0, or "variable"
VarCountVariable == -1
to_constant(vc) == vc
is_variable(vc) == vc = VarCountVariable

\* Vec<Value> helpers, 0-based
At(s, i) == s[i + 1]
Put(s, i, v) == [s EXCEPT ![i + 1] = v]
truncate(s, n) == IF Len(s) > n THEN SubSeq(s, 1, n) ELSE s
resize(s, n, v) == IF Len(s) >= n THEN SubSeq(s, 1, n)
                   ELSE s \o [i \in 1..(n - Len(s)) |-> v]
Slice(s, from, to) == SubSeq(s, from + 1, to)
Min(a, b) == IF a < b THEN a ELSE b

\* for i in 0..n { s[dst + i] = s[src + i] }, in the source's order
RECURSIVE CopyLoop(_, _, _, _, _)
CopyLoop(s, dst, src, i, n) ==
  IF i >= n THEN s
  ELSE CopyLoop(Put(s, dst + i, At(s, src + i)), dst, src, i + 1, n)

\* for i in from..to { s[at + i] = Nil }
RECURSIVE NilLoop(_, _, _, _)
NilLoop(s, at, i, to) ==
  IF i >= to THEN s ELSE NilLoop(Put(s, at + i, Nil), at, i + 1, to)

\* for i in 0..n { s[at + i] = vals[i] }
RECURSIVE WriteLoop(_, _, _, _, _)
WriteLoop(s, at, vals, i, n) ==
  IF i >= n THEN s
  ELSE WriteLoop(Put(s, at + i, At(vals, i)), at, vals, i + 1, n)

\* slice[mid..].rotate_left(k) on s[from..]
rotate_left(s, from, k) ==
  LET tail == Slice(s, from, Len(s))
  IN  SubSeq(s, 1, from) \o SubSeq(tail, k + 1, Len(tail)) \o SubSeq(tail, 1, k)

\* --------------------------------------------------------------- upvalues
OpenCell(t, i) == [st |-> "Open", thread |-> t, ind |-> i, v |-> Nil]
ClosedCell(v) == [st |-> "Closed", thread |-> 0, ind |-> 0, v |-> v]

\* ---------------------------------------------------------------- opcodes
Move(dest, source) == [op |-> "Move", dest |-> dest, source |-> source]
LoadConstant(dest, constant) ==
  [op |-> "LoadConstant", dest |-> dest, constant |-> constant]
Call(func, args, returns) ==
  [op |-> "Call", func |-> func, args |-> args, returns |-> returns]
TailCall(func, args) == [op |-> "TailCall", func |-> func, args |-> args]
Return(start, count) == [op |-> "Return", start |-> start, count |-> count]
Jump(offset, close) == [op |-> "Jump", offset |-> offset, close_upvalues |-> close]
Closure(proto, dest) == [op |-> "Closure", proto |-> proto, dest |-> dest]
GetUpValue(source, dest) == [op |-> "GetUpValue", source |-> source, dest |-> dest]
SetUpValue(source, dest) == [op |-> "SetUpValue", source |-> source, dest |-> dest]
AddRR(dest, left, right) ==
  [op |-> "AddRR", dest |-> dest, left |-> left, right |-> right]
SelfR(base, table, key) == [op |-> "SelfR", base |-> base, table |-> table, key |-> key]
SelfC(base, table, key) == [op |-> "SelfC", base |-> base, table |-> table, key |-> key]
GenericForCall(base, var_count) ==
  [op |-> "GenericForCall", base |-> base, var_count |-> var_count]
GenericForLoop(base, jump) == [op |-> "GenericForLoop", base |-> base, jump |-> jump]
NumericForPrep(base, jump) == [op |-> "NumericForPrep", base |-> base, jump |-> jump]
NumericForLoop(base, jump) == [op |-> "NumericForLoop", base |-> base, jump |-> jump]

\* Jump.close_upvalues is an optional register; NoClose is "none"
NoClose == -1

ParentLocal(reg) == [kind |-> "ParentLocal", idx |-> reg]
Outer(i) == [kind |-> "Outer", idx |-> i]

\* ------------------------------------------------ prototypes (the inputs)
\* The compiler's output is an input of the core.  These are the function
\* prototypes the host runs, written as the compiler would emit them.
Proto(ops, consts, protos, ups, fp, size) ==
  [opcodes |-> ops, constants |-> consts, prototypes |-> protos,
   upvalues |-> ups, fixed_params |-> fp, stack_size |-> size]

Protos(p) ==
  CASE p = "PAdd" ->      \* return 1 + 2
         Proto(<<LoadConstant(0, 0), LoadConstant(1, 1), AddRR(0, 0, 1),
                 Return(0, 1)>>,
               <<IntV(1), IntV(2)>>, <<>>, <<>>, 0, 2)
    [] p = "PId" ->       \* function(x) return x end
         Proto(<<Return(0, 1)>>, <<>>, <<>>, <<>>, 1, 1)
    [] p = "PCall" ->     \* function(f, x) local r = f(x); return r end
         Proto(<<Move(2, 0), Move(3, 1), Call(2, 1, 1), Return(2, 1)>>,
               <<>>, <<>>, <<>>, 2, 4)
    [] p = "PTail" ->     \* function(f, x) return f(x) end
         Proto(<<Move(2, 0), Move(3, 1), TailCall(2, 1),
                 Return(2, VarCountVariable)>>,
               <<>>, <<>>, <<>>, 2, 4)
    [] p = "PCallVar" ->  \* function(f, x) return f(x), all results, no tail call
         Proto(<<Move(2, 0), Move(3, 1), Call(2, 1, VarCountVariable),
                 Return(2, VarCountVariable)>>,
               <<>>, <<>>, <<>>, 2, 4)
    [] p = "PNest" ->     \* function(f, x) local a, b = PTail(f, x); return a, b end
         Proto(<<Closure(0, 2), Move(3, 0), Move(4, 1), Call(2, 2, 2),
                 Return(2, 2)>>,
               <<>>, <<"PTail">>, <<>>, 2, 5)
    [] p = "PMk" ->       \* local x = 0; set, get over x; set(5); get(); return set, get
         Proto(<<LoadConstant(0, 0), Closure(0, 1), Closure(1, 2), Move(3, 1),
                 LoadConstant(4, 1), Call(3, 1, 0), Move(3, 2), Call(3, 0, 1),
                 Return(1, 2)>>,
               <<IntV(0), IntV(5)>>, <<"PSet", "PGet">>, <<>>, 0, 5)
    [] p = "PSib" ->      \* set, get = PMk(); a = get(); set(9); b = get(); return a, b
         Proto(<<Closure(0, 0), Call(0, 0, 2), Move(2, 1), Call(2, 0, 1),
                 Move(3, 0), LoadConstant(4, 0), Call(3, 1, 0), Move(3, 1),
                 Call(3, 0, 1), Return(2, 2)>>,
               <<IntV(9)>>, <<"PMk">>, <<>>, 0, 5)
    [] p = "PSet" ->      \* function(v) x = v end
         Proto(<<SetUpValue(0, 0), Return(0, 0)>>,
               <<>>, <<>>, <<ParentLocal(0)>>, 1, 1)
    [] p = "PGet" ->      \* function() return x end
         Proto(<<GetUpValue(0, 0), Return(0, 1)>>,
               <<>>, <<>>, <<ParentLocal(0)>>, 0, 1)
    [] p = "PBlock" ->    \* local a = 3; ga; do local b = 4; gb end; return ga, gb
         Proto(<<LoadConstant(0, 0), Closure(0, 1), LoadConstant(2, 1),
                 Closure(1, 3), Jump(0, 2), Move(2, 3), Return(1, 2)>>,
               <<IntV(3), IntV(4)>>, <<"PGet", "PGetB">>, <<>>, 0, 4)
    [] p = "PCap" ->      \* function(f, x) local g = <get f>; local r = f(x); return r end
         Proto(<<Closure(0, 2), Move(3, 0), Move(4, 1), Call(3, 1, 1), Return(3, 1)>>,
               <<>>, <<"PGet">>, <<>>, 2, 5)
    [] p = "PGetB" ->     \* function() return b end  (b is register 2 of PBlock)
         Proto(<<GetUpValue(0, 0), Return(0, 1)>>,
               <<>>, <<>>, <<ParentLocal(2)>>, 0, 1)
    [] p = "PTailCap" ->  \* function(a, x) local g = function() return a end; return g(x) end
         Proto(<<Closure(0, 2), Move(3, 2), Move(4, 1), TailCall(3, 1),
                 Return(3, VarCountVariable)>>,
               <<>>, <<"PGet">>, <<>>, 2, 5)
    [] p = "PFor" ->      \* function(a, b, s) local r; for i = a, b, s do r = i end; return r end
         Proto(<<NumericForPrep(0, 1), Move(4, 3), NumericForLoop(0, -2),
                 Return(4, 1)>>,
               <<>>, <<>>, <<>>, 3, 5)
    [] p = "PCall3" ->    \* function(f, x) local r = f(x, 7, 9); return r end
         Proto(<<Move(2, 0), Move(3, 1), LoadConstant(4, 0), LoadConstant(5, 1),
                 Call(2, 3, 1), Return(2, 1)>>,
               <<IntV(7), IntV(9)>>, <<>>, <<>>, 2, 6)
    [] p = "PStale" ->    \* function(f, x) local t = x; local r = f(x); return r end,
                          \* t in the register above the argument of the call
         Proto(<<Move(2, 0), Move(3, 1), Move(4, 1), Call(2, 1, 1), Return(2, 1)>>,
               <<>>, <<>>, <<>>, 2, 5)
    [] p = "PSecond" ->   \* function(a, b) return b end
         Proto(<<Return(1, 1)>>, <<>>, <<>>, <<>>, 2, 2)
    [] p = "PPad" ->      \* function() local a, b, c = PNone(); return a, b, c end
         Proto(<<Closure(0, 0), Call(0, 0, 3), Return(0, 3)>>,
               <<>>, <<"PNone">>, <<>>, 0, 3)
    [] p = "PNone" ->     \* function() end
         Proto(<<Return(0, 0)>>, <<>>, <<>>, <<>>, 0, 0)
    [] p = "PFresh" ->    \* do local b; g1 = <get b> end; do local b; g2 = <get b> end;
                          \* return g1, g2  (both b in register 2)
         Proto(<<Closure(0, 0), Jump(0, 2), Closure(0, 1), Jump(0, 2), Return(0, 2)>>,
               <<>>, <<"PGetB">>, <<>>, 0, 3)
    [] p = "PSwap" ->     \* function(v) local old = x; x = v; return old end
         Proto(<<GetUpValue(0, 1), SetUpValue(0, 0), Return(1, 1)>>,
               <<>>, <<>>, <<ParentLocal(1)>>, 1, 2)
    [] p = "PShare" ->    \* function(f) local x = 0; f(<swap x>) end
         Proto(<<LoadConstant(1, 0), Move(2, 0), Closure(0, 3), Call(2, 1, 0),
                 Return(0, 0)>>,
               <<IntV(0)>>, <<"PSwap">>, <<>>, 1, 4)
    [] p = "PRet" ->      \* function() local x = 0; return <swap x> end
         Proto(<<LoadConstant(1, 0), Closure(0, 0), Return(0, 1)>>,
               <<IntV(0)>>, <<"PSwap">>, <<>>, 0, 2)
    [] p = "PSelfR" ->    \* function(obj, k) return obj[k], obj end, as a Self with the key
                          \* in register 1; the constants are those of the prototype
         Proto(<<SelfR(2, 0, 1), Return(2, 2)>>,
               <<IntV(1), IntV(2)>>, <<>>, <<>>, 2, 4)
    [] p = "PSelfC" ->    \* function(obj) return obj[1], obj end, as a Self with the key
                          \* in constant 0
         Proto(<<SelfC(2, 0, 0), Return(2, 2)>>,
               <<IntV(1)>>, <<>>, <<>>, 1, 4)
    [] p = "PSelfAlias" -> \* the same with base = table = register 0
         Proto(<<SelfC(0, 0, 0), Return(0, 2)>>,
               <<IntV(1)>>, <<>>, <<>>, 1, 2)
    [] p = "PGetK" ->     \* function() return k end  (k is register 5 of PForIn)
         Proto(<<GetUpValue(0, 0), Return(0, 1)>>,
               <<>>, <<>>, <<ParentLocal(5)>>, 0, 1)
    [] p = "PForIn" ->    \* function(iter) local g; for k in iter do g = <get k> end;
                          \* return g end: iterator, state and control in registers
                          \* 2..4, k in register 5, closed at the end of the body
         Proto(<<Move(2, 0), Jump(2, NoClose), Closure(0, 1), Jump(0, 5),
                 GenericForCall(2, 1), GenericForLoop(4, -4), Return(1, 1)>>,
               <<>>, <<"PGetK">>, <<>>, 1, 8)
    [] p = "PLoop" ->     \* function() while true do end end
         Proto(<<Jump(-1, NoClose), Return(0, 0)>>,
               <<>>, <<>>, <<>>, 0, 1)

\* ------------------------------------------------- callbacks (the inputs)
\* A callback is native code outside the core.  Each callback here has one
\* fixed behaviour: what its call returns, and what each later step of the
\* continuation it returned reports.  A continuation is the script of its
\* remaining steps and the values it finally delivers.
Callbacks == {"CbReturn", "CbReturn2", "CbYield", "CbErr", "CbCont",
              "CbContLong", "CbContErr", "CbContYield", "CbContThenYield"}

CallbackResult(kind, vals, script) ==
  [kind |-> kind, vals |-> vals, cont |-> [script |-> script, vals |-> vals]]

\* Callback::call(thread, args)
CallbackCall(cb, args) ==
  CASE cb = "CbReturn" -> CallbackResult("Return", args, <<>>)
    [] cb = "CbReturn2" -> CallbackResult("Return", args \o <<IntV(7)>>, <<>>)
    [] cb = "CbYield" -> CallbackResult("Yield", args, <<>>)
    [] cb = "CbErr" -> CallbackResult("Err", <<>>, <<>>)
    [] cb = "CbIter" ->
         CallbackResult("Return",
                        IF Len(args) >= 2 /\ args[2] = Nil THEN <<IntV(1)>> ELSE <<Nil>>,
                        <<>>)
    [] cb = "CbCont" -> CallbackResult("Continue", args, <<"Return">>)
    [] cb = "CbContLong" ->
         CallbackResult("Continue", args, <<"None", "Continue", "Return">>)
    [] cb = "CbContErr" -> CallbackResult("Continue", args, <<"Continue", "Err">>)
    [] cb = "CbContYield" -> CallbackResult("Continue", args, <<"Yield">>)
    [] cb = "CbContThenYield" ->
         CallbackResult("Continue", args, <<"Continue", "None", "Yield">>)

\* Sequence::step on a stored continuation: the head of the script is what
\* this step reports, the tail is the continuation that remains
ContStep(cont) ==
  CallbackResult(Head(cont.script), cont.vals, Tail(cont.script))

\* ------------------------------------------------------------ thread state
\* FrameReturn
CallBoundary == [kind |-> "CallBoundary", returns |-> 0]
Upper(returns) == [kind |-> "Upper", returns |-> returns]

NoCont == [script |-> <<>>, vals |-> <<>>]

\* Frame { bottom, top, frame_type, frame_return }; base and pc belong to
\* FrameType::Lua, callback to FrameType::Callback
Frame(bottom, top, frame_type, base, callback, frame_return) ==
  [bottom |-> bottom, top |-> top, frame_type |-> frame_type, base |-> base,
   pc |-> 0, callback |-> callback, frame_return |-> frame_return]

\* ThreadState as Thread::new leaves it.  open_upvalues is the BTreeMap from
\* stack index to upvalue cell: a function whose domain is the set of keys.
EmptyMap == [k \in {} |-> 0]
NewThreadState == [stack |-> <<>>, frames |-> <<>>, open_upvalues |-> EmptyMap]

Last(frames) == frames[Len(frames)]
Pop(frames) == SubSeq(frames, 1, Len(frames) - 1)

\* Option<Result<ThreadResult, Error>>: None, Some(Ok(Finish(vals))),
\* Some(Ok(Continue(cont))), Some(Err(msg)); Panic is a panic of the process
Res(kind, vals, cont, msg) == [kind |-> kind, vals |-> vals, cont |-> cont, msg |-> msg]
RNone == Res("None", <<>>, NoCont, "")
RFinish(vals) == Res("Finish", vals, NoCont, "")
RContinue(cont) == Res("Continue", <<>>, cont, "")
RErr(msg) == Res("Err", <<>>, NoCont, msg)
RPanic(msg) == Res("Panic", <<>>, NoCont, msg)

\* the value of an Open(thread, ind) cell, read through its owning thread
OpenValue(m, cell) == At(m.threads[cell.thread].stack, cell.ind)

\* close_upvalues that splits the map off above `bottom` and not at it
close_upvalues_above(m, t, bottom) ==
  LET state == m.threads[t]
      split_off == {k \in DOMAIN state.open_upvalues : k > bottom}
      closing == {state.open_upvalues[k] : k \in split_off}
  IN  [m EXCEPT
        !.threads[t].open_upvalues =
           [k \in (DOMAIN state.open_upvalues) \ split_off |-> state.open_upvalues[k]],
        !.cells = [c \in DOMAIN m.cells |->
                     IF c \in closing /\ m.cells[c].st = "Open"
                     THEN ClosedCell(OpenValue(m, m.cells[c]))
                     ELSE m.cells[c]]]

close_upvalues(m, t, bottom) ==
  LET state == m.threads[t]
      split_off == {k \in DOMAIN state.open_upvalues : k >= bottom}
      closing == {state.open_upvalues[k] : k \in split_off}
  IN  [m EXCEPT
        !.threads[t].open_upvalues =
           [k \in (DOMAIN state.open_upvalues) \ split_off |-> state.open_upvalues[k]],
        !.cells = [c \in DOMAIN m.cells |->
                     IF c \in closing /\ m.cells[c].st = "Open"
                     THEN ClosedCell(OpenValue(m, m.cells[c]))
                     ELSE m.cells[c]]]

\* closure_call that truncates to the arguments and does not rotate them
PushLuaFrame_norotate(m, t, function_index, args, frame_return, proto) ==
  LET state == m.threads[t]
      arg_count == IF is_variable(args)
                   THEN Len(state.stack) - function_index - 1
                   ELSE to_constant(args)
      fixed_params == proto.fixed_params
      base == IF arg_count > fixed_params
              THEN function_index + 1 + (arg_count - fixed_params)
              ELSE function_index + 1
      stack1 == IF arg_count > fixed_params
                THEN truncate(state.stack, function_index + 1 + arg_count)
                ELSE state.stack
      top == base + proto.stack_size
  IN  [m EXCEPT
        !.threads[t].stack = resize(stack1, top, Nil),
        !.threads[t].frames =
           Append(state.frames, Frame(function_index, top, "Lua", base, NoCont, frame_return))]

PushLuaFrame(m, t, function_index, args, frame_return, proto) ==
  LET state == m.threads[t]
      arg_count == IF is_variable(args)
                   THEN Len(state.stack) - function_index - 1
                   ELSE to_constant(args)
      fixed_params == proto.fixed_params
      base == IF arg_count > fixed_params
              THEN function_index + 1 + (arg_count - fixed_params)
              ELSE function_index + 1
      stack1 == IF arg_count > fixed_params
                THEN rotate_left(truncate(state.stack, function_index + 1 + arg_count),
                                 function_index + 1, fixed_params)
                ELSE state.stack
      top == base + proto.stack_size
  IN  [m EXCEPT
        !.threads[t].stack = resize(stack1, top, Nil),
        !.threads[t].frames =
           Append(state.frames, Frame(function_index, top, "Lua", base, NoCont, frame_return))]

closure_call(m, t, function_index, args, frame_return) ==
  PushLuaFrame(m, t, function_index, args, frame_return,
               Protos(At(m.threads[t].stack, function_index).f))

\* callback_call whose Yield branch pushes the Yield frame and leaves the stack
CallbackResultOf_keepstack(m, t, function_index, frame_return, res) ==
  LET state == m.threads[t]
      count == Len(res.vals)
      returns == frame_return.returns
  IN  CASE res.kind = "Err" -> [m |-> m, ret |-> RErr("callback error"), cb |-> "Err"]
        [] res.kind = "Return" /\ frame_return.kind = "CallBoundary" ->
             [m |-> m, ret |-> RFinish(res.vals), cb |-> "Return"]
        [] res.kind = "Return" /\ frame_return.kind = "Upper" /\ ~is_variable(returns) ->
             LET returning == to_constant(returns)
                 s0 == IF Len(state.frames) > 0
                       THEN resize(state.stack, Last(state.frames).top, Nil)
                       ELSE state.stack
                 s1 == WriteLoop(s0, function_index, res.vals, 0, Min(returning, count))
                 s2 == NilLoop(s1, function_index, count, returning)
             IN  [m |-> [m EXCEPT !.threads[t].stack = s2], ret |-> RNone, cb |-> "Return"]
        [] res.kind = "Return" /\ frame_return.kind = "Upper" /\ is_variable(returns) ->
             LET s0 == resize(state.stack, function_index + count, Nil)
                 s1 == WriteLoop(s0, function_index, res.vals, 0, count)
             IN  [m |-> [m EXCEPT !.threads[t].stack = s1], ret |-> RNone, cb |-> "Return"]
        [] res.kind = "Yield" ->
             [m |-> [m EXCEPT
                      !.threads[t].frames =
                         Append(state.frames,
                                Frame(function_index, function_index, "Yield", 0, NoCont,
                                      frame_return))],
              ret |-> RFinish(res.vals), cb |-> "Yield"]
        [] res.kind = "Continue" /\ frame_return.kind = "CallBoundary" ->
             [m |-> m, ret |-> RContinue(res.cont), cb |-> "Continue"]
        [] res.kind = "Continue" /\ frame_return.kind = "Upper" ->
             [m |-> [m EXCEPT
                      !.threads[t].frames =
                         Append(state.frames,
                                Frame(function_index, function_index, "Callback", 0,
                                      res.cont, Upper(returns))),
                      !.threads[t].stack = resize(state.stack, function_index, Nil)],
              ret |-> RNone, cb |-> "Continue"]

\* the result of callback_call: the machine, what the function returns
\* (RNone is the source's None), and which CallbackResult the callback gave.
\* CallbackResultOf is the `match callback.call(..)` on the callback's result.
CallbackResultOf(m, t, function_index, frame_return, res) ==
  LET state == m.threads[t]
      count == Len(res.vals)
      returns == frame_return.returns
  IN  CASE res.kind = "Err" -> [m |-> m, ret |-> RErr("callback error"), cb |-> "Err"]
        [] res.kind = "Return" /\ frame_return.kind = "CallBoundary" ->
             [m |-> m, ret |-> RFinish(res.vals), cb |-> "Return"]
        [] res.kind = "Return" /\ frame_return.kind = "Upper" /\ ~is_variable(returns) ->
             LET returning == to_constant(returns)
                 s0 == IF Len(state.frames) > 0
                       THEN resize(state.stack, Last(state.frames).top, Nil)
                       ELSE state.stack
                 s1 == WriteLoop(s0, function_index, res.vals, 0, Min(returning, count))
                 s2 == NilLoop(s1, function_index, count, returning)
             IN  [m |-> [m EXCEPT !.threads[t].stack = s2], ret |-> RNone, cb |-> "Return"]
        [] res.kind = "Return" /\ frame_return.kind = "Upper" /\ is_variable(returns) ->
             LET s0 == resize(state.stack, function_index + count, Nil)
                 s1 == WriteLoop(s0, function_index, res.vals, 0, count)
             IN  [m |-> [m EXCEPT !.threads[t].stack = s1], ret |-> RNone, cb |-> "Return"]
        [] res.kind = "Yield" ->
             [m |-> [m EXCEPT
                      !.threads[t].frames =
                         Append(state.frames,
                                Frame(function_index, function_index, "Yield", 0, NoCont,
                                      frame_return)),
                      !.threads[t].stack = resize(state.stack, function_index, Nil)],
              ret |-> RFinish(res.vals), cb |-> "Yield"]
        [] res.kind = "Continue" /\ frame_return.kind = "CallBoundary" ->
             [m |-> m, ret |-> RContinue(res.cont), cb |-> "Continue"]
        [] res.kind = "Continue" /\ frame_return.kind = "Upper" ->
             [m |-> [m EXCEPT
                      !.threads[t].frames =
                         Append(state.frames,
                                Frame(function_index, function_index, "Callback", 0,
                                      res.cont, Upper(returns))),
                      !.threads[t].stack = resize(state.stack, function_index, Nil)],
              ret |-> RNone, cb |-> "Continue"]

callback_call(m, t, function_index, args, frame_return) ==
  LET state == m.threads[t]
      callback == At(state.stack, function_index)
      arg_count == IF is_variable(args)
                   THEN Len(state.stack) - function_index - 1
                   ELSE to_constant(args)
  IN  CallbackResultOf(m, t, function_index, frame_return,
        CallbackCall(callback.f,
                     Slice(state.stack, function_index + 1, function_index + 1 + arg_count)))

function_call(m, t, function_index, args, frame_return) ==
  LET f == At(m.threads[t].stack, function_index)
  IN  CASE f.tag = "Closure" ->
             [m |-> closure_call(m, t, function_index, args, frame_return),
              ret |-> RNone, cb |-> "Closure"]
        [] f.tag = "Callback" -> callback_call(m, t, function_index, args, frame_return)
        [] OTHER -> [m |-> m, ret |-> RPanic("not a closure or callback"), cb |-> "None"]

\* Unwind frames up to and including the most recent call boundary
RECURSIVE UnwindPop(_)
UnwindPop(frames) ==
  IF frames = <<>> \/ Last(frames).frame_return.kind = "CallBoundary" THEN frames
  ELSE UnwindPop(Pop(frames))

\* the frame stack is exhausted and no frame was a call boundary
NoBoundary == "no call boundary found during unwind"

\* the stack resize at the end of unwind; m1 has the frames popped and the
\* upvalues closed
UnwindResize(m1, t) ==
  LET state == m1.threads[t]
  IN  IF Len(state.frames) > 0
      THEN [m1 EXCEPT !.threads[t].stack = resize(state.stack, Last(state.frames).top, Nil)]
      ELSE m1

UnwindTo(m, t, upto) ==
  UnwindResize(close_upvalues([m EXCEPT !.threads[t].frames = Pop(upto)], t,
                              Last(upto).bottom), t)

unwind(m, t) == UnwindTo(m, t, UnwindPop(m.threads[t].frames))

\* get_upvalue that reads the cell's inline value whatever its state
get_upvalue_inline(m, self_thread, stack_base, upvalue) == m.cells[upvalue].v

get_upvalue(m, self_thread, stack_base, upvalue) ==
  LET cell == m.cells[upvalue]
  IN  IF cell.st = "Open" THEN OpenValue(m, cell) ELSE cell.v

\* add_offset that takes forward offsets only
add_offset_forward(pc, offset) == IF offset > 0 THEN pc + offset ELSE pc

add_offset(pc, offset) == pc + offset

\* ---------------------------------------------------------- step_callback
\* step_callback whose Continue pushes a second Callback frame for the new
\* continuation instead of replacing the stored one
CallbackStepResult_push(m, t, res) ==
  LET state == m.threads[t]
      top_frame == Last(state.frames)
  IN  IF res.kind = "Continue"
      THEN [m |-> [m EXCEPT !.threads[t].frames =
                      Append(state.frames,
                             Frame(top_frame.bottom, top_frame.top, "Callback", 0,
                                   res.cont, top_frame.frame_return))],
            res |-> RNone]
      ELSE [m |-> m, res |-> RNone]

CallbackStepResult(m, t, res) ==
  LET state == m.threads[t]
      n == Len(state.frames)
      top_frame == state.frames[n]
      returns == top_frame.frame_return.returns
  IN  CASE res.kind = "None" ->
             [m |-> [m EXCEPT !.threads[t].frames[n].callback = res.cont], res |-> RNone]
        [] res.kind = "Err" ->
             IF UnwindPop(state.frames) = <<>>
             THEN [m |-> [m EXCEPT !.threads[t].frames = <<>>], res |-> RPanic(NoBoundary)]
             ELSE [m |-> unwind(m, t), res |-> RErr("callback error")]
        [] res.kind = "Continue" ->
             [m |-> [m EXCEPT !.threads[t].frames[n].callback = res.cont], res |-> RNone]
        [] res.kind = "Yield" ->
             [m |-> [m EXCEPT !.threads[t].frames[n].frame_type = "Yield",
                              !.threads[t].frames[n].callback = NoCont],
              res |-> RFinish(res.vals)]
        [] res.kind = "Return" ->
             IF top_frame.frame_return.kind = "CallBoundary"
             THEN [m |-> m, res |-> RPanic("no frame to return to from callback")]
             ELSE
               LET return_len == IF is_variable(returns) THEN Len(res.vals)
                                 ELSE to_constant(returns)
                   frames1 == Pop(state.frames)
                   s0 == resize(truncate(state.stack, top_frame.bottom),
                                top_frame.bottom + return_len, Nil)
                   s1 == WriteLoop(s0, top_frame.bottom, res.vals, 0,
                                   Min(return_len, Len(res.vals)))
                   s2 == IF ~is_variable(returns)
                         THEN resize(s1, Last(frames1).top, Nil)
                         ELSE s1
               IN  [m |-> [m EXCEPT !.threads[t].frames = frames1,
                                    !.threads[t].stack = s2],
                    res |-> RNone]

step_callback(m, t) ==
  CallbackStepResult(m, t, ContStep(Last(m.threads[t].frames).callback))

\* --------------------------------------------------------------- step_lua
\* Closure: resolve the upvalue descriptors of the new closure in order
RECURSIVE ResolveUpvalues(_, _, _, _, _, _)
\* ResolveUpvalues whose Vacant branch allocates the cell without inserting it
ResolveUpvalues_noinsert(m, t, stack_base, current_function, descs, upvalues) ==
  IF descs = <<>> THEN [m |-> m, upvalues |-> upvalues]
  ELSE
    LET desc == Head(descs)
        ind == stack_base + desc.idx
        open == m.threads[t].open_upvalues
        uv == Len(m.cells) + 1
    IN  CASE desc.kind = "ParentLocal" /\ ind \in DOMAIN open ->
               ResolveUpvalues(m, t, stack_base, current_function, Tail(descs),
                               Append(upvalues, open[ind]))
          [] desc.kind = "ParentLocal" /\ ind \notin DOMAIN open ->
               ResolveUpvalues(
                 [m EXCEPT !.cells = Append(m.cells, OpenCell(t, ind))],
                 t, stack_base, current_function, Tail(descs), Append(upvalues, uv))
          [] desc.kind = "Outer" ->
               ResolveUpvalues(m, t, stack_base, current_function, Tail(descs),
                               Append(upvalues, At(current_function.uv, desc.idx)))

\* ResolveUpvalues whose Occupied branch allocates a cell of its own for the
\* register and puts it in the place of the one in the map
ResolveUpvalues_fresh(m, t, stack_base, current_function, descs, upvalues) ==
  IF descs = <<>> THEN [m |-> m, upvalues |-> upvalues]
  ELSE
    LET desc == Head(descs)
        ind == stack_base + desc.idx
        open == m.threads[t].open_upvalues
        uv == Len(m.cells) + 1
    IN  CASE desc.kind = "ParentLocal" ->
               ResolveUpvalues(
                 [m EXCEPT !.cells = Append(m.cells, OpenCell(t, ind)),
                           !.threads[t].open_upvalues =
                              [k \in (DOMAIN open) \cup {ind} |->
                                 IF k = ind THEN uv ELSE open[k]]],
                 t, stack_base, current_function, Tail(descs), Append(upvalues, uv))
          [] desc.kind = "Outer" ->
               ResolveUpvalues(m, t, stack_base, current_function, Tail(descs),
                               Append(upvalues, At(current_function.uv, desc.idx)))

ResolveUpvalues(m, t, stack_base, current_function, descs, upvalues) ==
  IF descs = <<>> THEN [m |-> m, upvalues |-> upvalues]
  ELSE
    LET desc == Head(descs)
        ind == stack_base + desc.idx
        open == m.threads[t].open_upvalues
        uv == Len(m.cells) + 1
    IN  CASE desc.kind = "ParentLocal" /\ ind \in DOMAIN open ->
               ResolveUpvalues(m, t, stack_base, current_function, Tail(descs),
                               Append(upvalues, open[ind]))
          [] desc.kind = "ParentLocal" /\ ind \notin DOMAIN open ->
               ResolveUpvalues(
                 [m EXCEPT !.cells = Append(m.cells, OpenCell(t, ind)),
                           !.threads[t].open_upvalues =
                              [k \in (DOMAIN open) \cup {ind} |->
                                 IF k = ind THEN uv ELSE open[k]]],
                 t, stack_base, current_function, Tail(descs), Append(upvalues, uv))
          [] desc.kind = "Outer" ->
               ResolveUpvalues(m, t, stack_base, current_function, Tail(descs),
                               Append(upvalues, At(current_function.uv, desc.idx)))

\* One opcode of the top Lua frame, pc already advanced.  ctl says how the
\* dispatcher goes on: "next" falls through to the budget check at the end of
\* the loop body, "start" is `continue 'start`, "return" is `return Some(ret)`.
Ctl(m, ctl, res, cb) == [m |-> m, ctl |-> ctl, res |-> res, cb |-> cb]

\* stack_frame[reg] = v
SetReg(m, t, stack_base, reg, v) ==
  [m EXCEPT !.threads[t].stack = Put(m.threads[t].stack, stack_base + reg, v)]
Reg(m, t, stack_base, reg) == At(m.threads[t].stack, stack_base + reg)

\* if let Some(ret) = function_call(..) { return Some(ret) }; continue 'start
CallResult(r) ==
  IF r.ret.kind # "None" THEN Ctl(r.m, "return", r.ret, r.cb)
  ELSE Ctl(r.m, "start", RNone, r.cb)

OpCall(m, t, op, stack_base) ==
  CallResult(function_call(m, t, stack_base + op.func, op.args, Upper(op.returns)))

\* TailCall that keeps the frame of the caller
TailCallClosed_nopop(m1, t, op, stack_bottom, stack_base, frame_return) ==
  LET state == m1.threads[t]
      func == stack_base + op.func
      arg_len == IF is_variable(op.args) THEN Len(state.stack) - func - 1
                 ELSE to_constant(op.args)
      s0 == Put(state.stack, stack_bottom, At(state.stack, func))
      s1 == CopyLoop(s0, stack_bottom + 1, func + 1, 0, arg_len)
      s2 == truncate(s1, stack_bottom + 1 + arg_len)
  IN  CallResult(function_call([m1 EXCEPT !.threads[t].stack = s2],
                               t, stack_bottom, op.args, frame_return))

\* TailCall after close_upvalues: m1 is the machine with the upvalues closed
TailCallClosed(m1, t, op, stack_bottom, stack_base, frame_return) ==
  LET state == m1.threads[t]
      func == stack_base + op.func
      arg_len == IF is_variable(op.args) THEN Len(state.stack) - func - 1
                 ELSE to_constant(op.args)
      s0 == Put(state.stack, stack_bottom, At(state.stack, func))
      s1 == CopyLoop(s0, stack_bottom + 1, func + 1, 0, arg_len)
      s2 == truncate(s1, stack_bottom + 1 + arg_len)
  IN  CallResult(function_call([m1 EXCEPT !.threads[t].stack = s2,
                                          !.threads[t].frames = Pop(state.frames)],
                               t, stack_bottom, op.args, frame_return))

\* TailCall that copies the callee and its arguments down and closes the
\* upvalues of the frame afterwards
OpTailCall_closelate(m, t, op, stack_bottom, stack_base, frame_return) ==
  LET state == m.threads[t]
      func == stack_base + op.func
      arg_len == IF is_variable(op.args) THEN Len(state.stack) - func - 1
                 ELSE to_constant(op.args)
      s0 == Put(state.stack, stack_bottom, At(state.stack, func))
      s1 == CopyLoop(s0, stack_bottom + 1, func + 1, 0, arg_len)
      m1 == close_upvalues([m EXCEPT !.threads[t].stack = s1], t, stack_bottom)
  IN  CallResult(function_call(
        [m1 EXCEPT !.threads[t].stack = truncate(s1, stack_bottom + 1 + arg_len),
                   !.threads[t].frames = Pop(state.frames)],
        t, stack_bottom, op.args, frame_return))

OpTailCall(m, t, op, stack_bottom, stack_base, frame_return) ==
  TailCallClosed(close_upvalues(m, t, stack_bottom), t, op, stack_bottom, stack_base,
                 frame_return)

\* the panic of indexing a Vec beyond its length
OutOfBounds == "index out of bounds"

\* Return that leaves the stack at the end of the returned values
ReturnClosed_noresize(m1, t, op, stack_bottom, stack_base, frame_return) ==
  LET state == m1.threads[t]
      frames1 == Pop(state.frames)
      start == stack_base + op.start
      count == IF is_variable(op.count) THEN Len(state.stack) - start
               ELSE to_constant(op.count)
      returns == frame_return.returns
  IN  IF frame_return.kind = "CallBoundary"
      THEN LET ret_vals == Slice(state.stack, start, start + count)
               s1 == IF Len(frames1) > 0
                     THEN resize(state.stack, Last(frames1).top, Nil)
                     ELSE <<>>
           IN  Ctl([m1 EXCEPT !.threads[t].stack = s1, !.threads[t].frames = frames1],
                   "return", RFinish(ret_vals), "None")
      ELSE LET returning == IF is_variable(returns) THEN count ELSE to_constant(returns)
               s1 == CopyLoop(state.stack, stack_bottom, start, 0, Min(returning, count))
               in_bounds == Min(returning, Len(state.stack) - stack_bottom)
               s2 == NilLoop(s1, stack_bottom, count, in_bounds)
               s3 == truncate(s2, stack_bottom + returning)
           IN  IF returning > count /\ in_bounds < returning
               THEN Ctl([m1 EXCEPT !.threads[t].stack = s2, !.threads[t].frames = frames1],
                        "return", RPanic(OutOfBounds), "None")
               ELSE Ctl([m1 EXCEPT !.threads[t].stack = s3, !.threads[t].frames = frames1],
                        "start", RNone, "None")

\* Return after close_upvalues: m1 is the machine with the upvalues closed
ReturnClosed(m1, t, op, stack_bottom, stack_base, frame_return) ==
  LET state == m1.threads[t]
      frames1 == Pop(state.frames)
      start == stack_base + op.start
      count == IF is_variable(op.count) THEN Len(state.stack) - start
               ELSE to_constant(op.count)
      returns == frame_return.returns
  IN  IF frame_return.kind = "CallBoundary"
      THEN LET ret_vals == Slice(state.stack, start, start + count)
               s1 == IF Len(frames1) > 0
                     THEN resize(state.stack, Last(frames1).top, Nil)
                     ELSE <<>>
           IN  Ctl([m1 EXCEPT !.threads[t].stack = s1, !.threads[t].frames = frames1],
                   "return", RFinish(ret_vals), "None")
      ELSE LET returning == IF is_variable(returns) THEN count ELSE to_constant(returns)
               s1 == CopyLoop(state.stack, stack_bottom, start, 0, Min(returning, count))
               in_bounds == Min(returning, Len(state.stack) - stack_bottom)
               s2 == NilLoop(s1, stack_bottom, count, in_bounds)
               s3 == IF is_variable(returns)
                     THEN truncate(s2, stack_bottom + returning)
                     ELSE resize(s2, Last(frames1).top, Nil)
           IN  IF returning > count /\ in_bounds < returning
               THEN \* state.stack[stack_bottom + i] = Nil beyond the end of the stack
                    Ctl([m1 EXCEPT !.threads[t].stack = s2, !.threads[t].frames = frames1],
                        "return", RPanic(OutOfBounds), "None")
               ELSE Ctl([m1 EXCEPT !.threads[t].stack = s3,
                                   !.threads[t].frames = frames1],
                        "start", RNone, "None")

\* Return that pops its frame and leaves the frame's upvalues open
OpReturn_noclose(m, t, op, stack_bottom, stack_base, frame_return) ==
  ReturnClosed(m, t, op, stack_bottom, stack_base, frame_return)

\* Return that also sets the slot below the function slot to Nil
OpReturn_below(m, t, op, stack_bottom, stack_base, frame_return) ==
  ReturnClosed([close_upvalues(m, t, stack_bottom) EXCEPT
                  !.threads[t].stack =
                     IF frame_return.kind = "Upper"
                     THEN Put(@, stack_bottom - 1, Nil)
                     ELSE @],
               t, op, stack_bottom, stack_base, frame_return)

OpReturn(m, t, op, stack_bottom, stack_base, frame_return) ==
  ReturnClosed(close_upvalues(m, t, stack_bottom), t, op, stack_bottom, stack_base,
               frame_return)

\* Jump that moves the pc and closes no upvalue
OpJump_noclose(m, t, op, stack_base) ==
  Ctl([m EXCEPT !.threads[t].frames[Len(m.threads[t].frames)].pc =
                   add_offset(m.threads[t].frames[Len(m.threads[t].frames)].pc, op.offset)],
      "next", RNone, "None")

OpJump(m, t, op, stack_base) ==
  LET n == Len(m.threads[t].frames)
      pc == m.threads[t].frames[n].pc
      m1 == [m EXCEPT !.threads[t].frames[n].pc = add_offset(pc, op.offset)]
  IN  IF op.close_upvalues # NoClose
      THEN Ctl(close_upvalues(m1, t, stack_base + op.close_upvalues), "next", RNone, "None")
      ELSE Ctl(m1, "next", RNone, "None")

ClosureResolved(t, op, stack_base, proto, r) ==
  Ctl(SetReg(r.m, t, stack_base, op.dest, ClosureV(proto, r.upvalues)),
      "next", RNone, "None")

ClosureOf(m, t, op, stack_base, current_function, proto) ==
  ClosureResolved(t, op, stack_base, proto,
    ResolveUpvalues(m, t, stack_base, current_function, Protos(proto).upvalues, <<>>))

OpClosure(m, t, op, stack_base, current_function) ==
  ClosureOf(m, t, op, stack_base, current_function,
            At(Protos(current_function.f).prototypes, op.proto))

OpGetUpValue(m, t, op, stack_base, current_function) ==
  LET upvalue == At(current_function.uv, op.source)
      cell == m.cells[upvalue]
  IN  IF cell.st = "Open" /\ cell.thread = t /\ cell.ind >= stack_base
      THEN Ctl(m, "return", RPanic("index out of bounds"), "None")
      ELSE Ctl(SetReg(m, t, stack_base, op.dest, get_upvalue(m, t, stack_base, upvalue)),
               "next", RNone, "None")

\* SetUpValue that writes an Open cell's slot in the stack of the running
\* thread, whichever thread owns the cell
OpSetUpValue_self(m, t, op, stack_base, current_function) ==
  LET val == Reg(m, t, stack_base, op.source)
      upvalue == At(current_function.uv, op.dest)
      cell == m.cells[upvalue]
  IN  CASE cell.st = "Open" /\ cell.ind >= Len(m.threads[t].stack) ->
             Ctl(m, "return", RPanic("index out of bounds"), "None")
        [] cell.st = "Open" /\ cell.ind < Len(m.threads[t].stack) ->
             Ctl([m EXCEPT !.threads[t].stack = Put(m.threads[t].stack, cell.ind, val)],
                 "next", RNone, "None")
        [] cell.st = "Closed" ->
             Ctl([m EXCEPT !.cells[upvalue] = ClosedCell(val)], "next", RNone, "None")

OpSetUpValue(m, t, op, stack_base, current_function) ==
  LET val == Reg(m, t, stack_base, op.source)
      upvalue == At(current_function.uv, op.dest)
      cell == m.cells[upvalue]
  IN  CASE cell.st = "Open" /\ cell.thread = t /\ cell.ind >= stack_base ->
             Ctl(m, "return", RPanic("index out of bounds"), "None")
        [] cell.st = "Open" /\ ~(cell.thread = t /\ cell.ind >= stack_base) ->
             Ctl([m EXCEPT !.threads[cell.thread].stack =
                              Put(m.threads[cell.thread].stack, cell.ind, val)],
                 "next", RNone, "None")
        [] cell.st = "Closed" ->
             Ctl([m EXCEPT !.cells[upvalue] = ClosedCell(val)], "next", RNone, "None")

\* get_table
NotATable == "value is not a table"

\* SelfR and SelfC: the table is read first, then R[base+1] and R[base] are
\* written; both take the key from the constants of the prototype
OpSelf(m, t, op, stack_base, current_function) ==
  LET table == Reg(m, t, stack_base, op.table)
      key == At(Protos(current_function.f).constants, op.key)
  IN  CASE op.key >= Len(Protos(current_function.f).constants) ->
             Ctl(m, "return", RPanic(OutOfBounds), "None")
        [] op.key < Len(Protos(current_function.f).constants) /\ table.tag # "Table" ->
             Ctl(SetReg(m, t, stack_base, op.base + 1, table),
                 "return", RPanic(NotATable), "None")
        [] op.key < Len(Protos(current_function.f).constants) /\ table.tag = "Table" ->
             Ctl(SetReg(SetReg(m, t, stack_base, op.base + 1, table),
                        t, stack_base, op.base, get(table, key)),
                 "next", RNone, "None")

OpSelfR(m, t, op, stack_base, current_function) ==
  OpSelf(m, t, op, stack_base, current_function)

OpSelfC(m, t, op, stack_base, current_function) ==
  OpSelf(m, t, op, stack_base, current_function)

OpLoadConstant(m, t, op, stack_base, current_function) ==
  Ctl(SetReg(m, t, stack_base, op.dest,
             At(Protos(current_function.f).constants, op.constant)),
      "next", RNone, "None")

\* Value::add, Value::subtract and Value::less_than on integers
add(a, b) == IntV(a.n + b.n)
subtract(a, b) == IntV(a.n - b.n)
less_than(a, b) == a.n < b.n

\* *pc = add_offset(*pc, jump)
JumpBy(m, t, jump) ==
  [m EXCEPT !.threads[t].frames[Len(m.threads[t].frames)].pc =
              add_offset(m.threads[t].frames[Len(m.threads[t].frames)].pc, jump)]

\* Value::to_bool: of the values of the model only Nil is false
to_bool(v) == v.tag # "Nil"

\* GenericForCall: the iterator, its state and the control value are copied
\* above themselves and the copy is called with two arguments
OpGenericForCall(m, t, op, stack_base) ==
  CallResult(function_call(
    [m EXCEPT !.threads[t].stack =
       CopyLoop(resize(m.threads[t].stack, stack_base + op.base + 6, Nil),
                stack_base + op.base + 3, stack_base + op.base, 0, 3)],
    t, stack_base + op.base + 3, 2, Upper(op.var_count)))

OpGenericForLoop(m, t, op, stack_base) ==
  IF to_bool(Reg(m, t, stack_base, op.base + 1))
  THEN Ctl(JumpBy(SetReg(m, t, stack_base, op.base, Reg(m, t, stack_base, op.base + 1)),
                  t, op.jump),
           "next", RNone, "None")
  ELSE Ctl(m, "next", RNone, "None")

\* NumericForPrep that leaves the start value as it is
OpNumericForPrep_nosub(m, t, op, stack_base) ==
  Ctl(JumpBy(m, t, op.jump), "next", RNone, "None")

OpNumericForPrep(m, t, op, stack_base) ==
  Ctl(JumpBy(SetReg(m, t, stack_base, op.base,
                    subtract(Reg(m, t, stack_base, op.base),
                             Reg(m, t, stack_base, op.base + 2))),
             t, op.jump),
      "next", RNone, "None")

\* NumericForLoop that stops when the counter reaches the limit
ForLoopAdded_strict(m1, t, op, stack_base) ==
  LET past_end == IF less_than(Reg(m1, t, stack_base, op.base + 2), IntV(0))
                  THEN ~less_than(Reg(m1, t, stack_base, op.base + 1),
                                  Reg(m1, t, stack_base, op.base))
                  ELSE ~less_than(Reg(m1, t, stack_base, op.base),
                                  Reg(m1, t, stack_base, op.base + 1))
  IN  IF ~past_end
      THEN Ctl(SetReg(JumpBy(m1, t, op.jump), t, stack_base, op.base + 3,
                      Reg(m1, t, stack_base, op.base)),
               "next", RNone, "None")
      ELSE Ctl(m1, "next", RNone, "None")

\* NumericForLoop after the step is added: m1 has R[base] + R[base+2] in R[base]
ForLoopAdded(m1, t, op, stack_base) ==
  LET past_end == IF less_than(Reg(m1, t, stack_base, op.base + 2), IntV(0))
                  THEN less_than(Reg(m1, t, stack_base, op.base),
                                 Reg(m1, t, stack_base, op.base + 1))
                  ELSE less_than(Reg(m1, t, stack_base, op.base + 1),
                                 Reg(m1, t, stack_base, op.base))
  IN  IF ~past_end
      THEN Ctl(SetReg(JumpBy(m1, t, op.jump), t, stack_base, op.base + 3,
                      Reg(m1, t, stack_base, op.base)),
               "next", RNone, "None")
      ELSE Ctl(m1, "next", RNone, "None")

OpNumericForLoop(m, t, op, stack_base) ==
  ForLoopAdded(SetReg(m, t, stack_base, op.base,
                      add(Reg(m, t, stack_base, op.base),
                          Reg(m, t, stack_base, op.base + 2))),
               t, op, stack_base)

ExecOp(m, t, op, stack_bottom, stack_base, frame_return, current_function) ==
  CASE op.op = "Move" ->
         Ctl(SetReg(m, t, stack_base, op.dest, Reg(m, t, stack_base, op.source)),
             "next", RNone, "None")
    [] op.op = "LoadConstant" -> OpLoadConstant(m, t, op, stack_base, current_function)
    [] op.op = "AddRR" ->
         Ctl(SetReg(m, t, stack_base, op.dest,
                    IntV(Reg(m, t, stack_base, op.left).n
                         + Reg(m, t, stack_base, op.right).n)),
             "next", RNone, "None")
    [] op.op = "Call" -> OpCall(m, t, op, stack_base)
    [] op.op = "TailCall" -> OpTailCall(m, t, op, stack_bottom, stack_base, frame_return)
    [] op.op = "Return" -> OpReturn(m, t, op, stack_bottom, stack_base, frame_return)
    [] op.op = "Jump" -> OpJump(m, t, op, stack_base)
    [] op.op = "Closure" -> OpClosure(m, t, op, stack_base, current_function)
    [] op.op = "GetUpValue" -> OpGetUpValue(m, t, op, stack_base, current_function)
    [] op.op = "SetUpValue" -> OpSetUpValue(m, t, op, stack_base, current_function)
    [] op.op = "SelfR" -> OpSelfR(m, t, op, stack_base, current_function)
    [] op.op = "SelfC" -> OpSelfC(m, t, op, stack_base, current_function)
    [] op.op = "GenericForCall" -> OpGenericForCall(m, t, op, stack_base)
    [] op.op = "GenericForLoop" -> OpGenericForLoop(m, t, op, stack_base)
    [] op.op = "NumericForPrep" -> OpNumericForPrep(m, t, op, stack_base)
    [] op.op = "NumericForLoop" -> OpNumericForLoop(m, t, op, stack_base)

\* What the dispatcher did in the slice: one entry per executed opcode with the
\* threads and cells before and after it.
Snapshot(m) == [threads |-> m.threads, cells |-> m.cells]
LogEntry(t, op, proto, pc, pre, post, ctl, res, cb) ==
  [thread |-> t, op |-> op.op, code |-> op, proto |-> proto, pc |-> pc,
   pre |-> Snapshot(pre), post |-> Snapshot(post),
   ctl |-> ctl, res |-> res.kind, cb |-> cb]

\* the opcode at pc of the closure's prototype
Fetch(current_function, pc) == At(Protos(current_function.f).opcodes, pc)

\* step_lua is the dispatcher: Dispatch fetches and executes the opcode of the
\* top Lua frame, AfterOp is the end of the loop body (the budget check) or the
\* restart from the new top frame.
RECURSIVE step_lua(_, _, _)
\* AfterOp with the `*pc += 1` of the last opcode lost when the budget runs out
AfterOp_rewind(m, t, instructions, op, current_function, pc, r) ==
  LET m2 == [r.m EXCEPT !.log = Append(m.log,
                LogEntry(t, op, current_function.f, pc, m, r.m, r.ctl, r.res, r.cb))]
      n == Len(m.threads[t].frames)
  IN  CASE r.ctl = "return" -> [m |-> m2, res |-> r.res]
        [] r.ctl = "start" -> step_lua(m2, t, instructions)
        [] r.ctl = "next" ->
             IF instructions = 0
             THEN [m |-> [m2 EXCEPT !.threads[t].frames[n].pc = pc], res |-> RNone]
             ELSE step_lua(m2, t, instructions - 1)

AfterOp(m, t, instructions, op, current_function, pc, r) ==
  LET m2 == [r.m EXCEPT !.log = Append(m.log,
                LogEntry(t, op, current_function.f, pc, m, r.m, r.ctl, r.res, r.cb))]
  IN  CASE r.ctl = "return" -> [m |-> m2, res |-> r.res]
        [] r.ctl = "start" -> step_lua(m2, t, instructions)
        [] r.ctl = "next" ->
             IF instructions = 0 THEN [m |-> m2, res |-> RNone]
             ELSE step_lua(m2, t, instructions - 1)

Dispatch(m, t, instructions, n, current_frame, current_function, op) ==
  AfterOp(m, t, instructions, op, current_function, current_frame.pc,
          ExecOp([m EXCEPT !.threads[t].frames[n].pc = current_frame.pc + 1], t, op,
                 current_frame.bottom, current_frame.base, current_frame.frame_return,
                 current_function))

step_lua(m, t, instructions) ==
  LET state == m.threads[t]
      n == Len(state.frames)
      current_frame == state.frames[n]
      current_function == At(state.stack, current_frame.bottom)
  IN  IF current_frame.frame_type # "Lua"
      THEN [m |-> m, res |-> RPanic("step_lua called when top frame is not a callback")]
      ELSE Dispatch(m, t, instructions, n, current_frame, current_function,
                    Fetch(current_function, current_frame.pc))

\* Thread::step
step(m, t, granularity) ==
  LET frames == m.threads[t].frames
  IN  CASE Len(frames) = 0 -> [m |-> m, res |-> RPanic("cannot step a finished thread")]
        [] Len(frames) > 0 /\ Last(frames).frame_type = "Lua" -> step_lua(m, t, granularity)
        [] Len(frames) > 0 /\ Last(frames).frame_type = "Callback" -> step_callback(m, t)
        [] Len(frames) > 0 /\ Last(frames).frame_type = "Yield" ->
             [m |-> m, res |-> RPanic("cannot step a suspended thread")]

\* ------------------------------------------------------------- resumables
\* The resumable call_closure returns: ThreadFinish(Some(cont)).  mode "thread"
\* is cont = the ThreadSequence {thread, frame_top, granularity}; mode "cont"
\* is cont = a callback continuation mapped by callback_to_continuation_result
\* (what ThreadResult::Continue carried); mode "done" is ThreadFinish(None).
Sequence(t, frame_top, granularity) ==
  [thread |-> t, frame_top |-> frame_top, granularity |-> granularity,
   mode |-> "thread", cont |-> NoCont, wrap |-> "none"]

\* ThreadFinish(None): the resumable has delivered its result, which the host
\* now holds (`last.res`)
Finished(sq) ==
  [thread |-> sq.thread, frame_top |-> 0, granularity |-> 0, mode |-> "done",
   cont |-> NoCont, wrap |-> sq.wrap]

\* Thread::sequence_closure.  `panic` is the message of the assertion that
\* failed, "" when the ThreadSequence `sq` was produced.
ZeroGranularity == "granularity cannot be zero"

NewSequence(m2, t, granularity) ==
  [m |-> m2, sq |-> Sequence(t, Len(m2.threads[t].frames), granularity), panic |-> ""]

\* sequence_closure that pushes the call and checks the granularity afterwards
sequence_closure_latecheck(m, t, closure, args, granularity) ==
  [NewSequence(closure_call([m EXCEPT !.threads[t].stack =
                                  Append(m.threads[t].stack, closure) \o args],
                            t, Len(m.threads[t].stack), VarCountVariable, CallBoundary),
               t, granularity)
   EXCEPT !.panic = IF granularity = 0 THEN ZeroGranularity ELSE ""]

\* sequence_closure that pushes the frame of the call as a frame that returns
\* to a frame above, not as a call boundary
sequence_closure_upper(m, t, closure, args, granularity) ==
  IF granularity = 0
  THEN [m |-> m, sq |-> Sequence(t, 0, 0), panic |-> ZeroGranularity]
  ELSE NewSequence(closure_call([m EXCEPT !.threads[t].stack =
                                      Append(m.threads[t].stack, closure) \o args],
                                t, Len(m.threads[t].stack), VarCountVariable,
                                Upper(VarCountVariable)),
                   t, granularity)

sequence_closure(m, t, closure, args, granularity) ==
  IF granularity = 0
  THEN [m |-> m, sq |-> Sequence(t, 0, 0), panic |-> ZeroGranularity]
  ELSE NewSequence(closure_call([m EXCEPT !.threads[t].stack =
                                      Append(m.threads[t].stack, closure) \o args],
                                t, Len(m.threads[t].stack), VarCountVariable,
                                CallBoundary),
                   t, granularity)

\* what call_closure and continue_closure wrap the ThreadSequence in:
\* ThreadFinish(Some(..)) and .map(continuation_to_callback_result)
Wrapped(r, wrap) == [r EXCEPT !.sq.wrap = wrap]
call_closure(m, t, closure, args, granularity) ==
  Wrapped(sequence_closure(m, t, closure, args, granularity), "finish")
continue_closure(m, t, closure, args, granularity) ==
  Wrapped(sequence_closure(m, t, closure, args, granularity), "callback")

\* ThreadSequence::step
Stepped(sq, r) ==
  [m |-> r.m,
   sq |-> [sq EXCEPT !.frame_top = Len(r.m.threads[sq.thread].frames)],
   res |-> r.res]

\* ThreadSequence::step without the frame_top check
ThreadSequenceStep_nocheck(m, sq) == Stepped(sq, step(m, sq.thread, sq.granularity))

ThreadSequenceStep(m, sq) ==
  IF sq.frame_top # Len(m.threads[sq.thread].frames)
  THEN [m |-> m, sq |-> sq,
        res |-> RPanic("frame mismatch in ThreadSequence, Sequences evaluated out of order")]
  ELSE Stepped(sq, step(m, sq.thread, sq.granularity))

\* callback_to_continuation_result that lets a continuation yield its values
ContinuationStep_yields(m, sq) ==
  LET r == ContStep(sq.cont)
  IN  CASE r.kind = "None" -> [m |-> m, sq |-> [sq EXCEPT !.cont = r.cont], res |-> RNone]
        [] r.kind = "Return" -> [m |-> m, sq |-> sq, res |-> RFinish(r.vals)]
        [] r.kind = "Yield" -> [m |-> m, sq |-> sq, res |-> RFinish(r.vals)]
        [] r.kind = "Continue" -> [m |-> m, sq |-> sq, res |-> RContinue(r.cont)]
        [] r.kind = "Err" -> [m |-> m, sq |-> sq, res |-> RErr("callback error")]

\* callback_to_continuation_result applied to one step of the continuation
ContinuationStep(m, sq) ==
  LET r == ContStep(sq.cont)
  IN  CASE r.kind = "None" -> [m |-> m, sq |-> [sq EXCEPT !.cont = r.cont], res |-> RNone]
        [] r.kind = "Return" -> [m |-> m, sq |-> sq, res |-> RFinish(r.vals)]
        [] r.kind = "Yield" ->
             [m |-> m, sq |-> sq, res |-> RErr("yield from unyieldable function")]
        [] r.kind = "Continue" -> [m |-> m, sq |-> sq, res |-> RContinue(r.cont)]
        [] r.kind = "Err" -> [m |-> m, sq |-> sq, res |-> RErr("callback error")]

\* ThreadFinish::step, on an unfinished resumable
ThreadFinishResult(sq, r) ==
  CASE r.res.kind = "Finish" -> [m |-> r.m, sq |-> Finished(sq), res |-> r.res]
    [] r.res.kind = "Continue" ->
         [m |-> r.m, sq |-> [r.sq EXCEPT !.mode = "cont", !.cont = r.res.cont],
          res |-> r.res]
    [] r.res.kind = "Err" -> [m |-> r.m, sq |-> Finished(sq), res |-> r.res]
    [] r.res.kind = "None" -> [m |-> r.m, sq |-> r.sq, res |-> r.res]
    [] r.res.kind = "Panic" -> [m |-> r.m, sq |-> r.sq, res |-> r.res]

ThreadFinishStep(m, sq) ==
  ThreadFinishResult(sq, IF sq.mode = "thread" THEN ThreadSequenceStep(m, sq)
                         ELSE ContinuationStep(m, sq))

\* continuation_to_callback_result, applied to one step of the resumable
\* continue_closure returned: Finish becomes CallbackResult::Return, Continue
\* becomes CallbackResult::Continue of the mapped continuation
ToCallbackResult(sq, r) ==
  CASE r.res.kind = "Finish" ->
         [m |-> r.m, sq |-> Finished(sq), res |-> [r.res EXCEPT !.kind = "Return"]]
    [] r.res.kind = "Continue" ->
         [m |-> r.m, sq |-> [r.sq EXCEPT !.mode = "cont", !.cont = r.res.cont],
          res |-> r.res]
    [] r.res.kind = "Err" -> [m |-> r.m, sq |-> Finished(sq), res |-> r.res]
    [] r.res.kind = "None" -> [m |-> r.m, sq |-> r.sq, res |-> r.res]
    [] r.res.kind = "Panic" -> [m |-> r.m, sq |-> r.sq, res |-> r.res]

MappedStep(m, sq) ==
  ToCallbackResult(sq, IF sq.mode = "thread" THEN ThreadSequenceStep(m, sq)
                       ELSE ContinuationStep(m, sq))

\* ------------------------------------------------------------------- host
\* What the host passes to call_closure: a top-level closure and its
\* arguments.  Closures that call their first argument get a callback or the
\* identity closure for it.
Callees ==
  {CallbackV(c) : c \in Callbacks} \cup {ClosureV("PId", <<>>), ClosureV("PTailCap", <<>>)}
CallerProtos == {"PCall", "PTail", "PCallVar", "PNest"}
Job(p, args) == [closure |-> ClosureV(p, <<>>), args |-> args]
\* the numeric for loops the host runs: for i = a, b, s, from either end of
\* 1..MaxLimit to any limit in it
ForSteps == {-1, 1, 2}
ForJob(a, b, s) == Job("PFor", <<IntV(a), IntV(b), IntV(s)>>)
ForJobs == {ForJob(a, b, s) : a \in {1, MaxLimit}, b \in 1..MaxLimit, s \in ForSteps}
Jobs ==
  {Job(p, <<f, IntV(1)>>) : p \in CallerProtos, f \in Callees}
  \cup {Job(p, <<>>) : p \in {"PAdd", "PSib", "PBlock", "PLoop", "PPad", "PFresh"}}
  \cup {Job("PCap", <<CallbackV("CbContErr"), IntV(1)>>),
        Job("PTailCap", <<IntV(8), IntV(1)>>),
        Job("PId", <<IntV(1), IntV(2), IntV(3)>>),
        Job("PCall3", <<ClosureV("PId", <<>>), IntV(1)>>),
        Job("PStale", <<ClosureV("PSecond", <<>>), IntV(5)>>),
        Job("PSelfR", <<TableV(1), IntV(1)>>),
        Job("PSelfC", <<TableV(1)>>),
        Job("PSelfAlias", <<TableV(1)>>),
        Job("PForIn", <<CallbackV("CbIter")>>)}
  \cup ForJobs
\* the calls the host makes on a thread it has called before
LaterJobs ==
  {Job("PAdd", <<>>), Job("PSib", <<>>),
   Job("PCall", <<CallbackV("CbYield"), IntV(1)>>),
   Job("PCall", <<CallbackV("CbErr"), IntV(1)>>),
   Job("PTail", <<CallbackV("CbContLong"), IntV(1)>>)}

\* ------------------------------------------------------------- io.rs
\* A BufRead is the bytes of the stream, the offsets at which the fills of its
\* buffer end, and the number of bytes consumed.  fill_buf returns what is left
\* of the current fill, or the next fill when nothing is left of it.
BomFirst == 239
BomSecond == 187
BomThird == 191
Hash == 35
Newline == 10
Bom == <<BomFirst, BomSecond, BomThird>>

Reader(data, cuts) == [state |-> "open", data |-> data, cuts |-> cuts, pos |-> 0]
NoReader == [state |-> "none", data |-> <<>>, cuts |-> {}, pos |-> 0]

SetMin(S) == CHOOSE x \in S : \A y \in S : x <= y
FillEnd(r) == SetMin({c \in r.cuts \cup {Len(r.data)} : c > r.pos} \cup {Len(r.data)})
fill_buf(r) == SubSeq(r.data, r.pos + 1, FillEnd(r))
consume(r, amt) == [r EXCEPT !.pos = r.pos + amt]

\* the inner loop: the index of the first '\n' of buf, or its length
RECURSIVE ToConsume(_, _)
ToConsume(buf, i) ==
  IF i >= Len(buf) \/ At(buf, i) = Newline THEN i ELSE ToConsume(buf, i + 1)

\* the outer loop of the shebang branch
RECURSIVE SkipLine(_)
\* the shebang branch consuming what is left of one fill only
SkipLine_once(r) == consume(r, ToConsume(fill_buf(r), 0))

SkipLine(r) ==
  IF ToConsume(fill_buf(r), 0) = 0 THEN r
  ELSE SkipLine(consume(r, ToConsume(fill_buf(r), 0)))

SkipBom(r) ==
  IF /\ Len(fill_buf(r)) >= 3
     /\ At(fill_buf(r), 0) = BomFirst
     /\ At(fill_buf(r), 1) = BomSecond
     /\ At(fill_buf(r), 2) = BomThird
  THEN consume(r, 3) ELSE r

SkipShebang(r) ==
  IF Len(fill_buf(r)) >= 1 /\ At(fill_buf(r), 0) = Hash
  THEN SkipLine(consume(r, 1)) ELSE r

skip_prefix(r) == [SkipShebang(SkipBom(r)) EXCEPT !.state = "skipped"]

\* the byte streams the host reads: a prefix, then up to MaxBody bytes of
\* '#', '\n' and 'A'
BodyBytes == {Hash, Newline, 65}
Prefixes == {<<>>, Bom, <<BomFirst, BomSecond>>, <<BomSecond, BomThird>>}
Streams ==
  {p \o b : p \in Prefixes,
             b \in UNION {[1..n -> BodyBytes] : n \in 0..MaxBody}}
\* the ways a reader delivers a stream: the first fill holds 3 bytes or more,
\* or the whole stream
Fills(data) == SUBSET (3..(Len(data) - 1))

\* ------------------------------------------------------------------ state
VARIABLES
  threads,   \* thread |-> ThreadState {stack, frames, open_upvalues}
  cells,     \* the upvalue cells allocated so far; a cell's identity is its index
  seqs,      \* the resumables call_closure returned, in creation order
  panic,     \* the message of the panic that ended the process, "" while it runs
  log,       \* the opcodes of the last slice, each with the state before and after
  last,      \* the last host operation, its result and the state it started from
  jobs,      \* what each resumable was created with
  written,   \* upvalue cell |-> what SetUpValue last stored through it, and when
  body,      \* the loop variable at each run of the body of PFor's loop, in order
  io         \* the BufRead the host reads a script from: its bytes, fills and position

vars == <<threads, cells, seqs, panic, log, last, jobs, written, body, io>>

Machine == [threads |-> threads, cells |-> cells, log |-> <<>>]
NewMachine == [threads |-> [t \in Threads |-> NewThreadState], cells |-> <<>>, log |-> <<>>]

LastOp(act, s, g, res) ==
  [act |-> act, seq |-> s, granularity |-> g, res |-> res,
   pre |-> [threads |-> threads, cells |-> cells, seqs |-> seqs, written |-> written]]

\* the closure a Lua frame runs and a register of it, in a snapshot
FrameFunction(snap, t) ==
  At(snap.threads[t].stack, Last(snap.threads[t].frames).bottom)
FrameReg(snap, t, reg) ==
  At(snap.threads[t].stack, Last(snap.threads[t].frames).base + reg)

\* `written` after one opcode of a slice: SetUpValue records the value it
\* stored and the state the cell was in
Write(w, e) ==
  LET cell == At(FrameFunction(e.pre, e.thread).uv, e.code.dest)
      val == [v |-> FrameReg(e.pre, e.thread, e.code.source),
              st |-> e.pre.cells[cell].st]
  IN  IF e.op = "SetUpValue" /\ e.ctl = "next"
      THEN [c \in (DOMAIN w) \cup {cell} |-> IF c = cell THEN val ELSE w[c]]
      ELSE w

\* the SetUpValue opcodes of a slice, applied in order to `written`
RECURSIVE Writes(_, _)
Writes(w, entries) ==
  IF entries = <<>> THEN w ELSE Writes(Write(w, Head(entries)), Tail(entries))

\* the opcode of a log entry is the body of PFor's loop (pc 1), entered with
\* the loop variable in R[base+3]
ForBody(e) == e.proto = "PFor" /\ e.pc = 1
RECURSIVE Bodies(_, _)
Bodies(b, entries) ==
  IF entries = <<>> THEN b
  ELSE Bodies(IF ForBody(Head(entries))
              THEN Append(b, FrameReg(Head(entries).pre, Head(entries).thread, 3).n)
              ELSE b,
              Tail(entries))

Init ==
  /\ threads = [t \in Threads |-> NewThreadState]
  /\ cells = <<>>
  /\ seqs = <<>>
  /\ panic = ""
  /\ log = <<>>
  /\ last = [act |-> "init", seq |-> 0, granularity |-> 0, res |-> RNone,
             pre |-> [threads |-> [t \in Threads |-> NewThreadState], cells |-> <<>>,
                      seqs |-> <<>>, written |-> EmptyMap]]
  /\ jobs = <<>>
  /\ written = EmptyMap
  /\ body = <<>>
  /\ io = NoReader

\* the host has called call_closure or continue_closure (`act`): it holds a
\* new resumable, or the process has panicked
Produced(act, job, granularity, r) ==
  /\ threads' = r.m.threads
  /\ cells' = r.m.cells
  /\ seqs' = IF r.panic = "" THEN Append(seqs, r.sq) ELSE seqs
  /\ log' = <<>>
  /\ panic' = r.panic
  /\ last' = IF r.panic = "" THEN LastOp(act, Len(seqs) + 1, granularity, RNone)
             ELSE LastOp(act, 0, granularity, RPanic(r.panic))
  /\ jobs' = IF r.panic = "" THEN Append(jobs, job) ELSE jobs
  /\ UNCHANGED <<written, body, io>>

\* the host calls Thread::call_closure
Called(job, granularity, r) == Produced("call", job, granularity, r)

CallClosure(t, job, granularity) ==
  /\ panic = ""
  /\ Len(seqs) < MaxSeqs
  /\ Called(job, granularity,
            call_closure(Machine, t, job.closure, job.args, granularity))

\* the host steps an unfinished resumable
SteppedTo(s, r) ==
  /\ threads' = r.m.threads
  /\ cells' = r.m.cells
  /\ seqs' = [seqs EXCEPT ![s] = r.sq]
  /\ log' = r.m.log
  /\ panic' = IF r.res.kind = "Panic" THEN r.res.msg ELSE ""
  /\ last' = LastOp("step", s, last.granularity, r.res)
  /\ written' = Writes(written, r.m.log)
  /\ body' = Bodies(body, r.m.log)
  /\ UNCHANGED io
  /\ UNCHANGED jobs

StepSequence(s) ==
  /\ panic = ""
  /\ seqs[s].mode # "done"
  /\ SteppedTo(s, IF seqs[s].wrap = "callback" THEN MappedStep(Machine, seqs[s])
                  ELSE ThreadFinishStep(Machine, seqs[s]))

\* the host picks the granularity of its first call freely and keeps it for
\* the calls that follow
HostGranularity == IF seqs = <<>> THEN 0..MaxGran ELSE {0, last.granularity}

Next ==
  \/ \E t \in HostThreads, g \in HostGranularity :
       \E job \in (IF seqs = <<>> THEN Jobs ELSE LaterJobs) : CallClosure(t, job, g)
  \/ \E s \in DOMAIN seqs : StepSequence(s)

Spec == Init /\ [][Next]_vars

\* ----------------------------------------------- step_callback as a function
\* A callback that returns Continue to a call from a Lua frame leaves a Callback
\* frame on top, and the dispatcher's restart on that frame panics, so no step
\* of a resumable ever reaches step_callback.  StepCallback applies
\* Thread::step_callback (and through it unwind) to the thread as callback_call
\* left it, which is the only state with a Callback frame on top.
RestartPanic == "step_lua called when top frame is not a callback"

CallbackStepped(t, kind, r) ==
  /\ threads' = r.m.threads
  /\ cells' = r.m.cells
  /\ log' = <<LogEntry(t, [op |-> "StepCallback"], "", 0, Machine, r.m,
                       "return", r.res, kind)>>
  /\ last' = LastOp("step_callback", 0, last.granularity, r.res)
  /\ UNCHANGED <<seqs, panic, jobs, written, body, io>>

StepCallback(t) ==
  /\ panic = RestartPanic
  /\ Len(threads[t].frames) > 0
  /\ Last(threads[t].frames).frame_type = "Callback"
  /\ CallbackStepped(t, ContStep(Last(threads[t].frames).callback).kind,
                     step_callback(Machine, t))

NextCb ==
  \/ Next
  \/ \E t \in HostThreads : StepCallback(t)

SpecCb == Init /\ [][NextCb]_vars

\* -------------------------------------------------------- continue_closure
\* A callback calls Thread::continue_closure to run a closure on the thread
\* and gets a resumable of CallbackResults; what steps it is modelled as the
\* host.
ContinueJobs ==
  {Job("PAdd", <<>>), Job("PTail", <<CallbackV("CbCont"), IntV(1)>>)}

ContinueClosure(t, job, granularity) ==
  /\ panic = ""
  /\ Len(seqs) < MaxSeqs
  /\ Produced("continue", job, granularity,
              continue_closure(Machine, t, job.closure, job.args, granularity))

NextCc ==
  \/ Next
  \/ \E t \in HostThreads, g \in HostGranularity :
       \E job \in ContinueJobs : ContinueClosure(t, job, g)

SpecCc == Init /\ [][NextCc]_vars

\* ------------------------------------------------------- reading a script
\* the host wraps a byte stream in a buffered reader
NewReader(data, cuts) ==
  /\ io.state = "none"
  /\ io' = Reader(data, cuts)
  /\ UNCHANGED <<threads, cells, seqs, panic, log, last, jobs, written, body>>

\* the host calls skip_prefix on the reader
SkipPrefix ==
  /\ io.state = "open"
  /\ io' = skip_prefix(io)
  /\ UNCHANGED <<threads, cells, seqs, panic, log, last, jobs, written, body>>

NextIo ==
  \/ \E data \in Streams : \E cuts \in Fills(data) : NewReader(data, cuts)
  \/ SkipPrefix

SpecIo == Init /\ [][NextIo]_vars

\* ================================================================ properties
FrameMismatch == "frame mismatch in ThreadSequence, Sequences evaluated out of order"

\* the opcodes of the last slice that passed the budget check at the end of
\* the dispatcher's loop body
Budgeted == {i \in DOMAIN log : log[i].ctl = "next"}

\* C1: one step of a resumable created by call_closure with granularity g
\* executes no more than g opcodes (counting only the opcodes that pass the
\* budget check).
C1_AtMostGranularity ==
  last.act = "step" => Cardinality(Budgeted) <= last.granularity

\* C2: a step of a resumable S1 taken while a resumable S2 created later on the
\* same thread has not finished is rejected by the frame-depth check.
C2_LaterUnfinishedRejects ==
  (/\ last.act = "step"
   /\ \E s2 \in DOMAIN last.pre.seqs :
        /\ s2 > last.seq
        /\ last.pre.seqs[s2].thread = last.pre.seqs[last.seq].thread
        /\ last.pre.seqs[s2].mode # "done")
  => panic = FrameMismatch

\* the run of a job on a new thread with the granularity BigGran, stepped until
\* the resumable has finished or the process has panicked
RECURSIVE Drive(_)
Drive(r) ==
  IF r.sq.mode = "done" \/ r.res.kind = "Panic" THEN r
  ELSE Drive(ThreadFinishStep([r.m EXCEPT !.log = <<>>], r.sq))

Started(r) == [m |-> r.m, sq |-> r.sq, res |-> RNone]
Reference(job) ==
  Drive(Started(sequence_closure(NewMachine, 1, job.closure, job.args, BigGran)))

\* the first resumable of the run has ended and no other call was made
FirstRunEnded ==
  /\ Len(seqs) = 1
  /\ last.act = "step"
  /\ seqs[1].mode = "done" \/ panic # ""

SameAsReference(ref) ==
  /\ threads = ref.m.threads
  /\ cells = ref.m.cells
  /\ last.res = ref.res

\* C3: when a program run through call_closure with any granularity g >= 1
\* ends, the thread state (stack, frames, open-upvalue map), the upvalue cells
\* and the result are those of the same program run with a granularity that
\* is at least its opcode count.
C3_GranularityIndependent ==
  FirstRunEnded => SameAsReference(Reference(jobs[1]))

\* C3 witness: PSib has run to its result in slices of granularity 1, the
\* last of which did not hold the whole program
C3_Witness ==
  /\ FirstRunEnded
  /\ jobs[1] = Job("PSib", <<>>)
  /\ last.granularity = 1
  /\ last.res.kind = "Finish"
  /\ last.pre.threads # NewMachine.threads
  /\ Len(log) < 4

\* C4: when a callback reports an error to a step of the dispatcher, the frames
\* of the thread are popped down to and including the nearest CallBoundary
\* frame before the error reaches the resumable.
C4_CallbackErrorUnwinds ==
  (last.act = "step" /\ last.res.kind = "Err" /\ log # <<>>) =>
    threads[log[Len(log)].thread].frames =
      Pop(UnwindPop(log[Len(log)].pre.threads[log[Len(log)].thread].frames))

\* C5: after unwind the stack length is the top of the frame now on top, and
\* the stack is empty when unwind removed the last frame.
C5_UnwindStackLength ==
  (last.act = "step_callback" /\ last.res.kind = "Err") =>
    \A t \in Threads :
      IF threads[t].frames = <<>> THEN threads[t].stack = <<>>
      ELSE Len(threads[t].stack) = Last(threads[t].frames).top

\* the states the thread went through since the last host operation began:
\* the state after each opcode of the last slice, and the current state
Now == [threads |-> threads, cells |-> cells]
Visited == {Now} \cup {log[i].post : i \in DOMAIN log}

\* every Open(t, i) cell is open_upvalues[i] of thread t, and every entry
\* (k, cell) of a thread's map is a cell in state Open(t, k)
UpvalueMapOk(snap) ==
  /\ \A c \in DOMAIN snap.cells :
       snap.cells[c].st = "Open" =>
         /\ snap.cells[c].ind \in DOMAIN snap.threads[snap.cells[c].thread].open_upvalues
         /\ snap.threads[snap.cells[c].thread].open_upvalues[snap.cells[c].ind] = c
  /\ \A t \in Threads : \A k \in DOMAIN snap.threads[t].open_upvalues :
       snap.cells[snap.threads[t].open_upvalues[k]] = OpenCell(t, k)

\* C6: in every reachable state every Open(t, i) cell is the value under key i
\* of thread t's open_upvalues map and every entry (k, cell) of the map has
\* cell state Open(t, k), so at most one open cell exists per stack index.
C6_OpenUpvalueMap == \A snap \in Visited : UpvalueMapOk(snap)

\* C6 witness: an open cell is in the map while another cell has been closed
C6_Witness ==
  \E c1, c2 \in DOMAIN cells :
    /\ cells[c1].st = "Open"
    /\ cells[c2].st = "Closed"
    /\ cells[c1].ind \in DOMAIN threads[cells[c1].thread].open_upvalues

\* the opcodes of the last slice that close upvalues, and the depth d each
\* closes at
Closes(e) ==
  \/ e.op \in {"Return", "TailCall"}
  \/ e.op = "Jump" /\ e.code.close_upvalues # NoClose
  \/ e.op = "StepCallback" /\ e.cb = "Err"

CloseDepth(e) ==
  LET frames == e.pre.threads[e.thread].frames
  IN  CASE e.op \in {"Return", "TailCall"} -> Last(frames).bottom
        [] e.op = "Jump" -> Last(frames).base + e.code.close_upvalues
        [] e.op = "StepCallback" -> Last(UnwindPop(frames)).bottom

ClosedAt(e, d) ==
  LET before == e.pre.threads[e.thread].open_upvalues
      after == e.post.threads[e.thread].open_upvalues
  IN  /\ DOMAIN after = {k \in DOMAIN before : k < d}
      /\ \A k \in DOMAIN after :
           /\ after[k] = before[k]
           /\ e.post.cells[after[k]] = e.pre.cells[before[k]]
           /\ e.post.cells[after[k]].st = "Open"
      /\ \A k \in DOMAIN before :
           k >= d => e.post.cells[before[k]] =
                       ClosedCell(At(e.pre.threads[e.thread].stack, k))

StaysClosed(pre, post) ==
  \A c \in DOMAIN pre.cells : pre.cells[c].st = "Closed" => post.cells[c].st = "Closed"

\* C7: closing upvalues at depth d (Return, TailCall, unwind, Jump with a close
\* register) removes from open_upvalues exactly the keys >= d, leaves the
\* entries below d Open and unchanged, turns each removed cell into Closed(v)
\* with v the value of its stack slot at that moment; no Closed cell becomes
\* Open again.
C7_CloseAtDepth ==
  /\ \A i \in DOMAIN log : Closes(log[i]) => ClosedAt(log[i], CloseDepth(log[i]))
  /\ \A i \in DOMAIN log : StaysClosed(log[i].pre, log[i].post)
  /\ StaysClosed(last.pre, Now)

\* C7 witness: a Jump closed the upvalue of a block's local and left the
\* upvalue of a local below it open
C7_Witness ==
  \E i \in DOMAIN log :
    /\ log[i].op = "Jump" /\ Closes(log[i])
    /\ \E k1, k2 \in DOMAIN log[i].pre.threads[log[i].thread].open_upvalues :
         /\ k1 < CloseDepth(log[i])
         /\ k2 >= CloseDepth(log[i])
         /\ At(log[i].pre.threads[log[i].thread].stack, k2) = IntV(4)

\* a Closure opcode gives the new closure, for each ParentLocal upvalue whose
\* register already has an open cell, that cell
SharesOpenCells(e) ==
  LET base == Last(e.pre.threads[e.thread].frames).base
      new == FrameReg(e.post, e.thread, e.code.dest)
      descs == Protos(new.f).upvalues
      open == e.pre.threads[e.thread].open_upvalues
  IN  \A j \in DOMAIN descs :
        (descs[j].kind = "ParentLocal" /\ base + descs[j].idx \in DOMAIN open)
          => new.uv[j] = open[base + descs[j].idx]

\* the cell a GetUpValue reads and the value it delivers
ReadCell(e) == At(FrameFunction(e.pre, e.thread).uv, e.code.source)
ReadValue(e) == FrameReg(e.post, e.thread, e.code.dest)
IsRead(e) == e.op = "GetUpValue" /\ e.ctl = "next"

\* every GetUpValue of the slice delivers what SetUpValue last stored
RECURSIVE ReadsSeeWrites(_, _)
ReadsSeeWrites(w, entries) ==
  IF entries = <<>> THEN TRUE
  ELSE /\ (IsRead(Head(entries)) /\ ReadCell(Head(entries)) \in DOMAIN w)
             => ReadValue(Head(entries)) = w[ReadCell(Head(entries))].v
       /\ ReadsSeeWrites(Write(w, Head(entries)), Tail(entries))

\* C8: sibling closures that capture the same ParentLocal register of one
\* activation share its cell, and what one stores through SetUpValue is what
\* the other reads through GetUpValue, with the cell Open at both, Closed at
\* both, or Open at the write and Closed at the read.
C8_SiblingsShareUpvalue ==
  /\ \A i \in DOMAIN log :
       (log[i].op = "Closure" /\ log[i].ctl = "next") => SharesOpenCells(log[i])
  /\ ReadsSeeWrites(last.pre.written, log)

\* a GetUpValue of the last slice by a closure other than the writer, with the
\* cell in state wst at the write and rst at the read
ReadIn(wst, rst) ==
  \E i \in DOMAIN log :
    /\ IsRead(log[i])
    /\ FrameFunction(log[i].pre, log[i].thread).f = "PGet"
    /\ ReadCell(log[i]) \in DOMAIN Writes(last.pre.written, SubSeq(log, 1, i - 1))
    /\ Writes(last.pre.written, SubSeq(log, 1, i - 1))[ReadCell(log[i])].st = wst
    /\ log[i].pre.cells[ReadCell(log[i])].st = rst
    /\ ReadValue(log[i]).tag = "Integer"

\* C8 witness: the getter reads, after the enclosing frame has returned, the
\* value the setter stored before the return
C8_Witness == ReadIn("Open", "Closed")
C8_ReadOpen == ReadIn("Open", "Open")
C8_ReadClosed == ReadIn("Closed", "Closed")

\* TailCall entries of the last slice
TailCalled(e) == e.op = "TailCall"
FramesBefore(e) == Len(e.pre.threads[e.thread].frames)
FramesAfter(e) == Len(e.post.threads[e.thread].frames)
TailCallee(e) == FrameReg(e.pre, e.thread, e.code.func)

\* C9 as stated: after any TailCall, to a closure or to a callback, the number
\* of frames equals the number of frames before it.
C9_TailCallKeepsFrames ==
  \A i \in DOMAIN log : TailCalled(log[i]) => FramesAfter(log[i]) = FramesBefore(log[i])

\* the callback's frame is pushed: it yielded, or it returned a continuation
\* to a caller that is a Lua frame
PushesFrame(e) ==
  \/ e.cb = "Yield"
  \/ e.cb = "Continue" /\ Last(e.pre.threads[e.thread].frames).frame_return.kind = "Upper"

\* C9 amended: after a TailCall the number of frames equals the number before
\* it when the callee is a closure, or a callback that yields or returns a
\* continuation under a Lua caller; it is one less when the callee is a
\* callback that returns values, fails, or returns a continuation at a
\* CallBoundary.
C9_TailCallFrames ==
  \A i \in DOMAIN log :
    TailCalled(log[i]) =>
      FramesAfter(log[i]) =
        IF TailCallee(log[i]).tag = "Closure" \/ PushesFrame(log[i])
        THEN FramesBefore(log[i])
        ELSE FramesBefore(log[i]) - 1

\* C9 witness: a TailCall to a callback that returned values
C9_Witness ==
  \E i \in DOMAIN log :
    /\ TailCalled(log[i])
    /\ TailCallee(log[i]).tag = "Callback"
    /\ log[i].cb = "Return"
    /\ FramesAfter(log[i]) = FramesBefore(log[i]) - 1

\* a return into a caller that expects a fixed number of results: opcode
\* Return under Upper(k), a callback Return delivered by callback_call to a
\* Call or TailCall, or by step_callback
FrameReturnOf(e) == Last(e.pre.threads[e.thread].frames).frame_return
FixedReturn(e) ==
  \/ /\ e.op = "Return"
     /\ FrameReturnOf(e).kind = "Upper" /\ ~is_variable(FrameReturnOf(e).returns)
  \/ /\ e.op = "Call" /\ e.cb = "Return"
     /\ ~is_variable(e.code.returns)
  \/ /\ e.op \in {"TailCall", "StepCallback"} /\ e.cb = "Return"
     /\ FrameReturnOf(e).kind = "Upper" /\ ~is_variable(FrameReturnOf(e).returns)

StackAtTop(snap, t) == Len(snap.threads[t].stack) = Last(snap.threads[t].frames).top

\* C10: after a return into a caller that expects a fixed number k of results
\* the stack length equals the top of the frame returned to.
C10_FixedReturnStackTop ==
  \A i \in DOMAIN log :
    (FixedReturn(log[i]) /\ log[i].res # "Panic") => StackAtTop(log[i].post, log[i].thread)

\* C10 witness: the opcode Return gave one result to a Call with returns = 1
\* out of a frame that was larger than its caller's
C10_Witness ==
  \E i \in DOMAIN log :
    /\ log[i].op = "Return" /\ FixedReturn(log[i])
    /\ FrameReturnOf(log[i]).returns = 1
    /\ StackAtTop(log[i].post, log[i].thread)
    /\ Len(log[i].pre.threads[log[i].thread].stack)
         # Len(log[i].post.threads[log[i].thread].stack)

\* a Call or TailCall of the last slice whose callee, a callback, returned Yield
Yielded(e) == e.op \in {"Call", "TailCall"} /\ e.cb = "Yield"

\* the stack slot of the function the opcode calls: Call leaves it where it
\* is, TailCall copies it to the bottom of the calling frame
CalleeSlot(e) == Last(e.pre.threads[e.thread].frames).base + e.code.func
FunctionSlot(e) ==
  IF e.op = "Call" THEN CalleeSlot(e) ELSE Last(e.pre.threads[e.thread].frames).bottom

\* the frame_return the call passes on
CallFrameReturn(e) ==
  IF e.op = "Call" THEN Upper(e.code.returns) ELSE FrameReturnOf(e)

\* the arguments the callee is called with
CallArgs(e) ==
  Slice(e.pre.threads[e.thread].stack, CalleeSlot(e) + 1,
        IF is_variable(e.code.args) THEN Len(e.pre.threads[e.thread].stack)
        ELSE CalleeSlot(e) + 1 + to_constant(e.code.args))

\* what the callback gave back to the call
CalleeResult(e) == CallbackCall(TailCallee(e).f, CallArgs(e))

YieldLeft(e) ==
  /\ e.res = "Finish"
  /\ Last(e.post.threads[e.thread].frames) =
       Frame(FunctionSlot(e), FunctionSlot(e), "Yield", 0, NoCont, CallFrameReturn(e))
  /\ e.post.threads[e.thread].stack =
       SubSeq(e.pre.threads[e.thread].stack, 1, FunctionSlot(e))

\* the last step was one of the resumable the host created last, which was
\* called on top of the Yield frame an earlier one left
SteppedAboveYield ==
  /\ last.act = "step" /\ last.seq = Len(seqs) /\ last.seq > 1
  /\ last.pre.seqs[last.seq].mode = "thread"
  /\ \E k \in 1..(Len(last.pre.threads[seqs[last.seq].thread].frames) - 1) :
       last.pre.threads[seqs[last.seq].thread].frames[k].frame_type = "Yield"

\* C11: when a callback called from a Lua frame returns Yield(values) the
\* resumable finishes with exactly those values, a Yield frame with bottom =
\* top = the function slot is on top and the stack is truncated to that slot;
\* a call_closure made on the thread afterwards runs without a panic and ends
\* with its own results.
C11_YieldThenCall ==
  /\ \A i \in DOMAIN log :
       Yielded(log[i]) =>
         /\ i = Len(log)
         /\ YieldLeft(log[i])
         /\ last.res = RFinish(CalleeResult(log[i]).vals)
         /\ seqs[last.seq].mode = "done"
  /\ SteppedAboveYield =>
       /\ panic = ""
       /\ seqs[last.seq].mode = "done" => last.res = Reference(jobs[last.seq]).res

\* C11 witness: PSib, called after PCall's callback yielded, has returned 5, 9
C11_Witness ==
  /\ SteppedAboveYield
  /\ jobs[1] = Job("PCall", <<CallbackV("CbYield"), IntV(1)>>)
  /\ jobs[2] = Job("PSib", <<>>)
  /\ seqs[2].mode = "done"
  /\ last.res = RFinish(<<IntV(5), IntV(9)>>)
  /\ Last(threads[1].frames).frame_type = "Yield"

\* the resumable created to run the infinite loop, while the host drives it
\* and nothing else on the thread
Looping == {i \in DOMAIN seqs : Len(seqs) = 1 /\ jobs[i] = Job("PLoop", <<>>)}

\* the last host operation was a step of resumable i that returned to the host
Returned(i) == last.act = "step" /\ last.seq = i /\ panic = ""

\* C12: driving a closure whose body is a single backward Jump, at granularity
\* 1 and at every other granularity: every step returns not-done, the resumable never finishes, the frame count stays
\* constant, and after every step the stack is no longer than the running
\* frame's top.
C12_InfiniteLoop ==
  \A i \in Looping :
    /\ seqs[i].mode = "thread"
    /\ Returned(i) =>
         /\ last.res = RNone
         /\ Len(threads[seqs[i].thread].frames) =
              Len(last.pre.threads[seqs[i].thread].frames)
         /\ Len(threads[seqs[i].thread].stack) <=
              Last(threads[seqs[i].thread].frames).top

\* C12 witness: a granularity-1 step of the loop ran the Jump twice and
\* returned not-done
C12_Witness ==
  /\ Looping = {1} /\ Returned(1)
  /\ last.granularity = 1
  /\ last.pre.seqs[1].frame_top = seqs[1].frame_top
  /\ Len(log) = 2 /\ log[2].op = "Jump" /\ log[2].pc = 0
  /\ last.res = RNone

\* the stack slots of the calling frame that have an open upvalue when the
\* opcode of log entry e starts
OpenInFrame(e) ==
  {k \in DOMAIN e.pre.threads[e.thread].open_upvalues :
     k >= Last(e.pre.threads[e.thread].frames).bottom}

\* the cell of slot k is closed over the value the slot had before the opcode
ClosedOverOld(e, k, snapshot) ==
  /\ snapshot.cells[e.pre.threads[e.thread].open_upvalues[k]] =
       ClosedCell(At(e.pre.threads[e.thread].stack, k))
  /\ k \notin DOMAIN snapshot.threads[e.thread].open_upvalues

\* C13: a TailCall closes every open upvalue of the calling frame before the
\* callee and its arguments are copied down and before the callee's first
\* opcode runs: each closed cell holds the value its slot had before the copy;
\* so it is under frame_return CallBoundary as under Upper.
C13_TailCallClosesFirst ==
  \A i \in DOMAIN log :
    log[i].op = "TailCall" =>
      \A k \in OpenInFrame(log[i]) :
        /\ ClosedOverOld(log[i], k, log[i].post)
        /\ i < Len(log) => ClosedOverOld(log[i], k, log[i + 1].pre)

\* the copy of TailCall e overwrote slot k
Overwritten(e, k) ==
  /\ k < Len(e.post.threads[e.thread].stack)
  /\ At(e.post.threads[e.thread].stack, k) # At(e.pre.threads[e.thread].stack, k)

\* C13 witness: a TailCall of a call-boundary frame overwrote a captured slot
\* and the closure that captured it then read the old value, 8
C13_Witness ==
  \E i \in DOMAIN log :
    /\ log[i].op = "TailCall" /\ i < Len(log)
    /\ FrameReturnOf(log[i]) = CallBoundary
    /\ \E k \in OpenInFrame(log[i]) :
         /\ Overwritten(log[i], k)
         /\ At(log[i].pre.threads[log[i].thread].stack, k) = IntV(8)
    /\ log[i + 1].op = "GetUpValue"
    /\ FrameReg(log[i + 1].post, log[i + 1].thread, log[i + 1].code.dest) = IntV(8)

\* a TailCall of a frame that returns to an upper Lua frame did the same
C13_WitnessUpper ==
  \E i \in DOMAIN log :
    /\ log[i].op = "TailCall"
    /\ FrameReturnOf(log[i]).kind = "Upper"
    /\ \E k \in OpenInFrame(log[i]) : Overwritten(log[i], k)

\* the values a, a+s, a+2s, ... that are <= b, for s > 0
RECURSIVE Counting(_, _, _)
Counting(a, b, s) == IF a > b THEN <<>> ELSE <<a>> \o Counting(a + s, b, s)

IsPrefix(p, q) == Len(p) <= Len(q) /\ SubSeq(q, 1, Len(p)) = p

\* the first resumable runs `for i = a, b, s` and the last step finished it
ForRun == seqs # <<>> /\ jobs[1].closure.f = "PFor"
ForStart == jobs[1].args[1].n
ForLimit == jobs[1].args[2].n
ForStep == jobs[1].args[3].n
ForEnded == last.act = "step" /\ last.seq = 1 /\ last.res.kind = "Finish"

\* C14: a numeric for loop with integer start a, limit b and step s > 0 runs
\* its body once for each of a, a+s, a+2s, ... that is <= b, in that order and
\* with the limit included, R[base+3] holding that value in each iteration;
\* it runs the body zero times when a > b.
C14_NumericForCounts ==
  (ForRun /\ ForStep > 0) =>
    /\ IsPrefix(body, Counting(ForStart, ForLimit, ForStep))
    /\ ForStart > ForLimit => body = <<>>
    /\ ForEnded =>
         /\ body = Counting(ForStart, ForLimit, ForStep)
         /\ last.res.vals = <<IF body = <<>> THEN Nil ELSE IntV(body[Len(body)])>>

\* C14 witness: for i = 1, 3, 1 has finished after the body ran with 1, 2, 3
C14_Witness ==
  /\ ForRun /\ ForEnded
  /\ jobs[1] = ForJob(1, 3, 1)
  /\ body = <<1, 2, 3>>
  /\ last.res = RFinish(<<IntV(3)>>)

\* for i = 3, 1, 1 has finished and its body never ran
C14_WitnessEmpty ==
  /\ ForRun /\ ForEnded
  /\ jobs[1] = ForJob(3, 1, 1)
  /\ body = <<>>

\* a NumericForLoop opcode of the last slice and its registers
IsForLoop(e) == e.op = "NumericForLoop"
Counter(e) == FrameReg(e.post, e.thread, e.code.base).n
Limit(e) == FrameReg(e.post, e.thread, e.code.base + 1).n
StepOf(e) == FrameReg(e.post, e.thread, e.code.base + 2).n
PcAfter(e) == Last(e.post.threads[e.thread].frames).pc

\* the opcode added the step to R[base]
StepAdded(e) ==
  Counter(e) = FrameReg(e.pre, e.thread, e.code.base).n + StepOf(e)

\* the opcode jumped back and copied R[base] to R[base+3]
JumpedBack(e) ==
  /\ PcAfter(e) = add_offset(e.pc + 1, e.code.jump)
  /\ FrameReg(e.post, e.thread, e.code.base + 3) = IntV(Counter(e))

\* the opcode fell through and left R[base+3] alone
FellThrough(e) ==
  /\ PcAfter(e) = e.pc + 1
  /\ FrameReg(e.post, e.thread, e.code.base + 3) =
       FrameReg(e.pre, e.thread, e.code.base + 3)

\* C15 as stated: NumericForLoop, after adding the step, jumps back exactly
\* when R[base] > R[base+1] if the step is negative, and exactly when
\* R[base] < R[base+1] otherwise; in all other cases it falls through.
C15_StrictComparison ==
  \A i \in DOMAIN log :
    IsForLoop(log[i]) =>
      /\ StepAdded(log[i])
      /\ IF (IF StepOf(log[i]) < 0 THEN Counter(log[i]) > Limit(log[i])
             ELSE Counter(log[i]) < Limit(log[i]))
         THEN JumpedBack(log[i]) ELSE FellThrough(log[i])

\* C15 amended: NumericForLoop, after adding the step, jumps back exactly when
\* R[base] >= R[base+1] if the step is negative, and exactly when
\* R[base] <= R[base+1] otherwise; in all other cases it falls through.
C15_InclusiveComparison ==
  \A i \in DOMAIN log :
    IsForLoop(log[i]) =>
      /\ StepAdded(log[i])
      /\ IF (IF StepOf(log[i]) < 0 THEN Counter(log[i]) >= Limit(log[i])
             ELSE Counter(log[i]) <= Limit(log[i]))
         THEN JumpedBack(log[i]) ELSE FellThrough(log[i])

\* C15 witness: NumericForLoop with a negative step found R[base] equal to the
\* limit and jumped back
C15_Witness ==
  \E i \in DOMAIN log :
    /\ IsForLoop(log[i])
    /\ Counter(log[i]) = Limit(log[i])
    /\ JumpedBack(log[i])
    /\ ~FellThrough(log[i])
    /\ StepOf(log[i]) < 0

\* what skip_prefix is to leave of a stream
WithoutBom(d) ==
  IF Len(d) >= 3 /\ SubSeq(d, 1, 3) = Bom THEN SubSeq(d, 4, Len(d)) ELSE d
RECURSIVE FromNewline(_)
FromNewline(d) ==
  IF d = <<>> \/ Head(d) = Newline THEN d ELSE FromNewline(Tail(d))
WithoutShebang(d) ==
  IF d # <<>> /\ Head(d) = Hash THEN FromNewline(d) ELSE d

Unread(r) == SubSeq(r.data, r.pos + 1, Len(r.data))

\* C16: for every byte stream and every way the reader delivers it in fills
\* whose first holds at least 3 bytes or the whole stream, skip_prefix returns
\* and leaves unread exactly: the stream without a leading EF BB BF if there
\* is one, and then, if the next byte is '#', without the bytes up to but not
\* including the first 0A (or up to the end of the stream).
C16_SkipPrefixRemainder ==
  io.state = "skipped" =>
    /\ io.pos <= Len(io.data)
    /\ Unread(io) = WithoutShebang(WithoutBom(io.data))

\* C16 witness: EF BB BF 23 41 0A 41, delivered in fills of 3, 2 and 2 bytes,
\* is left at 0A 41
C16_Witness ==
  /\ io.state = "skipped"
  /\ io.data = <<BomFirst, BomSecond, BomThird, Hash, 65, Newline, 65>>
  /\ io.cuts = {3, 5}
  /\ Unread(io) = <<Newline, 65>>

\* 23 41 is left empty and 41 is left as it is
C16_WitnessShort ==
  /\ io.state = "skipped"
  /\ \/ io.data = <<Hash, 65>> /\ Unread(io) = <<>>
     \/ io.data = <<65>> /\ Unread(io) = <<65>>

\* the last host operation was call_closure or continue_closure with
\* granularity 0
ZeroCalled(act) == last.act = act /\ last.granularity = 0

NothingPushed ==
  /\ threads = last.pre.threads
  /\ cells = last.pre.cells
  /\ seqs = last.pre.seqs
  /\ Len(jobs) = Len(seqs)

\* C17: call_closure and continue_closure with granularity 0 fail the
\* granularity assertion before anything is pushed: the thread's stack, frames
\* and open upvalues are unchanged and no resumable is produced.
C17_ZeroGranularityPanics ==
  /\ (ZeroCalled("call") \/ ZeroCalled("continue")) =>
       /\ panic = ZeroGranularity
       /\ last.res = RPanic(ZeroGranularity)
       /\ NothingPushed
  /\ panic = ZeroGranularity => (ZeroCalled("call") \/ ZeroCalled("continue"))

\* C17 witness: call_closure with granularity 0 panicked on a thread that has
\* a frame, a stack and an open upvalue
C17_Witness ==
  /\ ZeroCalled("call")
  /\ panic = ZeroGranularity
  /\ threads[1].frames # <<>>
  /\ DOMAIN threads[1].open_upvalues # {}
  /\ NothingPushed

\* continue_closure with granularity 0 panicked on such a thread
C17_WitnessContinue ==
  /\ ZeroCalled("continue")
  /\ panic = ZeroGranularity
  /\ threads[1].frames # <<>>
  /\ NothingPushed

\* a TailCall of the last slice, made from a call-boundary Lua frame, whose
\* callee, a callback, returned Continue
BoundaryContinue(e) ==
  /\ e.op = "TailCall" /\ e.cb = "Continue"
  /\ FrameReturnOf(e) = CallBoundary

\* the last step was one of a resumable that held a call-boundary continuation
ContinuationStepped ==
  /\ last.act = "step"
  /\ last.pre.seqs[last.seq].mode = "cont"
  /\ last.pre.seqs[last.seq].wrap = "finish"

\* what that step of the continuation reported
Reported == ContStep(last.pre.seqs[last.seq].cont)

ThreadUntouched ==
  /\ threads = last.pre.threads
  /\ cells = last.pre.cells
  /\ log = <<>>

\* C18: when a callback tail-called from a call-boundary Lua frame returns
\* Continue, the resumable keeps stepping that continuation without pushing a
\* frame; if the continuation, or one it continues into, later returns Yield
\* the resumable ends with the error "yield from unyieldable function" and no
\* Yield frame is pushed; if it returns Return(values) the resumable finishes
\* with those values.
C18_BoundaryContinuation ==
  /\ \A i \in DOMAIN log :
       BoundaryContinue(log[i]) =>
         /\ i = Len(log)
         /\ log[i].post.threads[log[i].thread].frames =
              Pop(log[i].pre.threads[log[i].thread].frames)
         /\ seqs[last.seq].mode = "cont"
         /\ seqs[last.seq].cont = CalleeResult(log[i]).cont
  /\ ContinuationStepped =>
       /\ ThreadUntouched
       /\ panic = ""
       /\ Reported.kind \in {"None", "Continue"} =>
            /\ seqs[last.seq].mode = "cont"
            /\ seqs[last.seq].cont = Reported.cont
       /\ Reported.kind = "Yield" =>
            /\ last.res = RErr("yield from unyieldable function")
            /\ seqs[last.seq].mode = "done"
       /\ Reported.kind = "Return" =>
            /\ last.res = RFinish(Reported.vals)
            /\ seqs[last.seq].mode = "done"

\* C18 witness: the continuation of CbContThenYield, tail-called by PTail,
\* continued into another that yielded: the resumable ended with the error
\* and the thread has no frame
C18_Witness ==
  /\ ContinuationStepped
  /\ jobs[last.seq] = Job("PTail", <<CallbackV("CbContThenYield"), IntV(1)>>)
  /\ Reported.kind = "Yield"
  /\ last.res = RErr("yield from unyieldable function")
  /\ threads[1].frames = <<>>

\* the continuation of CbCont returned its values and the resumable finished
\* with them
C18_WitnessReturn ==
  /\ ContinuationStepped
  /\ jobs[last.seq] = Job("PTail", <<CallbackV("CbCont"), IntV(1)>>)
  /\ last.res = RFinish(<<IntV(1)>>)

Suspended == "cannot step a suspended thread"

\* the top frame of the thread of the resumable the host stepped last, before
\* that step
TopBefore == Last(last.pre.threads[last.pre.seqs[last.seq].thread].frames)

\* the last step of the host passed the frame_top check of ThreadSequence::step
\* and entered Thread::step
EnteredStep ==
  /\ last.act = "step"
  /\ last.pre.seqs[last.seq].mode = "thread"
  /\ last.pre.seqs[last.seq].frame_top =
       Len(last.pre.threads[last.pre.seqs[last.seq].thread].frames)

\* C19: whatever call_closure resumables the host creates on a thread and
\* whichever unfinished ones it steps, Thread::step is never entered while the
\* top frame of the thread is a Yield frame: the panic "cannot step a suspended
\* thread" is unreachable.
C19_NeverStepsSuspended ==
  /\ panic # Suspended
  /\ EnteredStep =>
       /\ last.pre.threads[last.pre.seqs[last.seq].thread].frames # <<>>
       /\ TopBefore.frame_type # "Yield"

\* C19 witness: the host stepped an unfinished resumable while a Yield frame
\* was on top of its thread, and the frame_top check stopped the step before
\* Thread::step
C19_Witness ==
  /\ last.act = "step"
  /\ last.pre.seqs[last.seq].mode = "thread"
  /\ TopBefore.frame_type = "Yield"
  /\ ~EnteredStep
  /\ panic = FrameMismatch

\* the last host operation was a slice of the dispatcher
Sliced == last.act = "step" /\ log # <<>> /\ log[1].op # "StepCallback"

\* C20: every opcode the dispatcher executes, Call, TailCall and Return
\* included, consumes one unit of the slice's budget, the budget being carried
\* over when the dispatcher restarts on a new top frame: every opcode that does
\* not end the slice passes the budget check, so a slice of granularity g holds
\* no more than g + 1 opcodes; and a slice that returns not-done leaves the pc
\* after its last opcode.
C20_EveryOpcodeBudgeted ==
  Sliced =>
    /\ \A i \in 1..(Len(log) - 1) : log[i].ctl = "next"
    /\ Len(log) <= last.granularity + 1
    /\ last.res = RNone => log[Len(log)].ctl = "next"

\* a Call or TailCall of the last slice whose callee is a closure
CallsClosure(e) == e.op \in {"Call", "TailCall"} /\ e.cb = "Closure"

Max(a, b) == IF a > b THEN a ELSE b

\* the Lua frame on top of thread t in `snap` is the one closure_call sets up
\* for the prototype `proto` called at function_index with the arguments args
FrameSetUp(snap, t, function_index, args, proto) ==
  LET n == Len(args)
      fp == proto.fixed_params
      base == function_index + 1 + Max(0, n - fp)
      frame == Last(snap.threads[t].frames)
      stack == snap.threads[t].stack
  IN  /\ frame.frame_type = "Lua"
      /\ frame.bottom = function_index
      /\ frame.pc = 0
      /\ frame.base = base
      /\ frame.top = base + proto.stack_size
      /\ Len(stack) = frame.top
      /\ \A i \in 0..(Min(n, fp) - 1) : At(stack, base + i) = At(args, i)
      /\ \A j \in 0..(n - fp - 1) : At(stack, function_index + 1 + j) = At(args, fp + j)

\* the last host operation was a call_closure that returned a resumable
ClosureCalled == last.act = "call" /\ panic = ""

\* C21: after closure_call at function_index with the arguments a1..an and
\* fp = fixed_params, the pushed Lua frame has bottom = function_index, pc = 0,
\* base = function_index + 1 + max(0, n - fp) and top = base + stack_size, the
\* stack length is top, R[0..min(n,fp)) hold a1..a_min(n,fp) in order and, when
\* n > fp, the slots bottom+1 .. base-1 hold a_(fp+1)..an in order.
C21_ClosureCallFrame ==
  /\ \A i \in DOMAIN log :
       CallsClosure(log[i]) =>
         FrameSetUp(log[i].post, log[i].thread, FunctionSlot(log[i]),
                    CallArgs(log[i]), Protos(TailCallee(log[i]).f))
  /\ ClosureCalled =>
       FrameSetUp(Machine, seqs[last.seq].thread,
                  Len(last.pre.threads[seqs[last.seq].thread].stack),
                  jobs[last.seq].args, Protos(jobs[last.seq].closure.f))

\* C21 witness: PId (one fixed parameter) called by Call with x, 7, 9 has x in
\* R[0] and 7, 9 below its base
C21_Witness ==
  \E i \in DOMAIN log :
    /\ CallsClosure(log[i]) /\ log[i].op = "Call"
    /\ TailCallee(log[i]).f = "PId"
    /\ CallArgs(log[i]) = <<IntV(1), IntV(7), IntV(9)>>
    /\ Last(log[i].post.threads[1].frames).base = FunctionSlot(log[i]) + 3
    /\ FrameReg(log[i].post, 1, 0) = IntV(1)

\* call_closure of PId with 1, 2, 3 has 1 in R[0] and 2, 3 below its base
C21_WitnessCallClosure ==
  /\ ClosureCalled
  /\ jobs[last.seq] = Job("PId", <<IntV(1), IntV(2), IntV(3)>>)
  /\ Slice(threads[1].stack, Last(threads[1].frames).bottom + 1,
           Last(threads[1].frames).base + 1) = <<IntV(2), IntV(3), IntV(1)>>

\* every register of the frame on top of `snap` from register `from` on is Nil
NilFrom(snap, t, from) ==
  \A r \in from..(Last(snap.threads[t].frames).top - Last(snap.threads[t].frames).base - 1) :
    FrameReg(snap, t, r) = Nil

\* the registers that hold passed arguments: those of the fixed parameters
\* that got one
Passed(args, proto) == Min(Len(args), proto.fixed_params)

\* C22: on entry to a closure called with fewer arguments than fixed_params,
\* or with a fixed argument count smaller than what lies above the function
\* slot, every register of the new frame that holds no passed argument, the
\* registers of the missing parameters included, holds Nil.
C22_MissingParametersNil ==
  /\ \A i \in DOMAIN log :
       CallsClosure(log[i]) =>
         NilFrom(log[i].post, log[i].thread,
                 Passed(CallArgs(log[i]), Protos(TailCallee(log[i]).f)))
  /\ ClosureCalled =>
       NilFrom(Machine, seqs[last.seq].thread,
               Passed(jobs[last.seq].args, Protos(jobs[last.seq].closure.f)))

\* a Return opcode of the last slice from a frame that returns to the Lua
\* frame above it
ReturnsUp(e) == e.op = "Return" /\ FrameReturnOf(e).kind = "Upper"
ReturnStart(e) == Last(e.pre.threads[e.thread].frames).base + e.code.start
ReturnCount(e) ==
  IF is_variable(e.code.count) THEN Len(e.pre.threads[e.thread].stack) - ReturnStart(e)
  ELSE to_constant(e.code.count)
ReturnValues(e) ==
  Slice(e.pre.threads[e.thread].stack, ReturnStart(e), ReturnStart(e) + ReturnCount(e))
ReturnBottom(e) == Last(e.pre.threads[e.thread].frames).bottom

\* the k slots from `bottom` on hold the first values of vals, then Nil
PaddedAt(stack, bottom, vals, k) ==
  /\ bottom + k <= Len(stack)
  /\ \A i \in 0..(k - 1) :
       At(stack, bottom + i) = IF i < Len(vals) THEN At(vals, i) ELSE Nil

\* all of vals lie from `bottom` on and the stack ends after them
AllAt(stack, bottom, vals) ==
  /\ Len(stack) = bottom + Len(vals)
  /\ Slice(stack, bottom, bottom + Len(vals)) = vals

\* C23: Return of `count` values from a frame with frame_return Upper(returns)
\* writes to the slots from the popped frame's bottom on: for fixed returns = k
\* the first min(k, count) returned values in order, then Nil in the remaining
\* k - count slots; for variable returns all `count` values in order, the
\* stack truncated to bottom + count.
C23_ReturnToUpper ==
  \A i \in DOMAIN log :
    ReturnsUp(log[i]) =>
      /\ log[i].res # "Panic"
      /\ IF is_variable(FrameReturnOf(log[i]).returns)
         THEN AllAt(log[i].post.threads[log[i].thread].stack, ReturnBottom(log[i]),
                    ReturnValues(log[i]))
         ELSE PaddedAt(log[i].post.threads[log[i].thread].stack, ReturnBottom(log[i]),
                       ReturnValues(log[i]), to_constant(FrameReturnOf(log[i]).returns))

\* the machine of snapshot `snap` with thread t returned to the caller of its
\* top frame: the frame popped, and `frame` pushed if it is one
CallerMachine(snap, t, pushed) ==
  [threads |-> [snap.threads EXCEPT ![t].frames = Pop(snap.threads[t].frames) \o pushed],
   cells |-> snap.cells, log |-> <<>>]

\* the stack a callback would leave that returned vals at once from
\* callback_call, called at the function slot of the frame that Return e leaves
ViaCallbackCall(e) ==
  CallbackResultOf(CallerMachine(e.pre, e.thread, <<>>), e.thread, ReturnBottom(e),
                   FrameReturnOf(e),
                   CallbackResult("Return", ReturnValues(e), <<>>)).m.threads[e.thread].stack

\* the stack a callback continuation would leave that returned vals from
\* step_callback, its Callback frame at that function slot
ContinuationFrame(e) ==
  Frame(ReturnBottom(e), ReturnBottom(e), "Callback", 0,
        [script |-> <<"Return">>, vals |-> ReturnValues(e)], FrameReturnOf(e))
ViaStepCallback(e) ==
  step_callback(CallerMachine(e.pre, e.thread, <<ContinuationFrame(e)>>),
                e.thread).m.threads[e.thread].stack

\* the number of result slots the caller looks at
Expected(e) ==
  IF is_variable(FrameReturnOf(e).returns) THEN ReturnCount(e)
  ELSE to_constant(FrameReturnOf(e).returns)

SameResults(s1, s2, bottom, n) ==
  /\ Len(s1) = Len(s2)
  /\ bottom + n <= Len(s1)
  /\ Slice(s1, bottom, bottom + n) = Slice(s2, bottom, bottom + n)

\* C24: a caller cannot tell how its callee returned: for the same result
\* vector and the same expected count, the result slots from the function slot
\* on and the stack length are the same whether the callee is a closure that
\* executes Return, a callback that returns at once from callback_call, or a
\* callback continuation that returns from step_callback.
C24_ReturnPathsAgree ==
  \A i \in DOMAIN log :
    ReturnsUp(log[i]) =>
      /\ log[i].res # "Panic"
      /\ SameResults(log[i].post.threads[log[i].thread].stack, ViaCallbackCall(log[i]),
                     ReturnBottom(log[i]), Expected(log[i]))
      /\ SameResults(log[i].post.threads[log[i].thread].stack, ViaStepCallback(log[i]),
                     ReturnBottom(log[i]), Expected(log[i]))

\* a Call or TailCall of the last slice, made with frame_return Upper, whose
\* callee, a callback, returned Continue
UpperContinue(e) ==
  /\ e.op \in {"Call", "TailCall"} /\ e.cb = "Continue"
  /\ CallFrameReturn(e).kind = "Upper"

\* the frames under the callee: Call keeps the calling frame, its pc past the
\* Call, TailCall pops it
FramesUnder(e) ==
  IF e.op = "Call"
  THEN [e.pre.threads[e.thread].frames EXCEPT
          ![Len(e.pre.threads[e.thread].frames)].pc = e.pc + 1]
  ELSE Pop(e.pre.threads[e.thread].frames)

\* callback_call pushed one Callback frame at the function slot, holding the
\* continuation, cut the stack at the function slot and returned None
ContinuationPushed(e) ==
  /\ e.post.threads[e.thread].frames =
       Append(FramesUnder(e),
              Frame(FunctionSlot(e), FunctionSlot(e), "Callback", 0,
                    CalleeResult(e).cont, CallFrameReturn(e)))
  /\ e.post.threads[e.thread].stack =
       Slice(e.pre.threads[e.thread].stack, 0, FunctionSlot(e))
  /\ e.res = "None"

\* the last host operation stepped the continuation of the top Callback frame
\* and the continuation reported Continue again
ContinuedAgain ==
  /\ last.act = "step_callback"
  /\ ContStep(Last(last.pre.threads[1].frames).callback).kind = "Continue"

\* only the continuation stored in the top frame was replaced
OnlyContinuationReplaced(t) ==
  LET n == Len(last.pre.threads[t].frames)
  IN  /\ threads =
           [last.pre.threads EXCEPT
              ![t].frames[n].callback = ContStep(last.pre.threads[t].frames[n].callback).cont]
      /\ cells = last.pre.cells
      /\ last.res.kind = "None"

C25_WitnessTailCall ==
  \E i \in DOMAIN log :
    /\ UpperContinue(log[i]) /\ log[i].op = "TailCall"
    /\ ContinuationPushed(log[i])

\* a Closure opcode of the last slice that made its closure
MadeClosure(e) == e.op = "Closure" /\ e.ctl = "next"
NewClosure(e) == FrameReg(e.post, e.thread, e.code.dest)

\* the descriptors of the new closure that capture a register of the frame,
\* and the stack index each captures
Captures(e) ==
  {j \in DOMAIN Protos(NewClosure(e).f).upvalues :
     Protos(NewClosure(e).f).upvalues[j].kind = "ParentLocal"}
CapturedIndex(e, j) ==
  Last(e.pre.threads[e.thread].frames).base + Protos(NewClosure(e).f).upvalues[j].idx

\* descriptor j got the cell of the map when the map had one, and otherwise a
\* cell that did not exist, now Open(this thread, index) and in the map
ReusedOrCreated(e, j) ==
  LET ind == CapturedIndex(e, j)
      open == e.pre.threads[e.thread].open_upvalues
      cell == NewClosure(e).uv[j]
  IN  IF ind \in DOMAIN open
      THEN /\ cell = open[ind]
           /\ e.post.cells = e.pre.cells
      ELSE /\ cell \notin DOMAIN e.pre.cells
           /\ e.post.cells[cell] = OpenCell(e.thread, ind)
           /\ ind \in DOMAIN e.post.threads[e.thread].open_upvalues
           /\ e.post.threads[e.thread].open_upvalues[ind] = cell

\* two Closure opcodes of one activation, the first before the second, that
\* capture the same stack index
SameActivation(e1, e2) ==
  /\ Len(e1.pre.threads[e1.thread].frames) = Len(e2.pre.threads[e2.thread].frames)
  /\ Last(e1.pre.threads[e1.thread].frames).bottom =
       Last(e2.pre.threads[e2.thread].frames).bottom
  /\ e1.proto = e2.proto

\* the cell is Open from the first opcode to the second
StaysOpen(i, k, cell) == \A x \in i..(k - 1) : log[x].post.cells[cell].st = "Open"

SameCellWhileOpen(i, k) ==
  \A j1 \in Captures(log[i]) : \A j2 \in Captures(log[k]) :
    CapturedIndex(log[i], j1) = CapturedIndex(log[k], j2) =>
      IF StaysOpen(i, k, NewClosure(log[i]).uv[j1])
      THEN NewClosure(log[k]).uv[j2] = NewClosure(log[i]).uv[j1]
      ELSE NewClosure(log[k]).uv[j2] # NewClosure(log[i]).uv[j1]

\* C26: Closure resolving ParentLocal(reg) returns the cell stored at key
\* base+reg of open_upvalues when there is one, and otherwise creates an
\* Open(this thread, base+reg) cell and inserts it; closures of one activation
\* that capture the same register while it stays open hold the same cell, and
\* a closure created after that upvalue was closed holds another cell.
C26_ParentLocalCell ==
  /\ \A i \in DOMAIN log :
       MadeClosure(log[i]) => \A j \in Captures(log[i]) : ReusedOrCreated(log[i], j)
  /\ \A i, k \in DOMAIN log :
       (i < k /\ MadeClosure(log[i]) /\ MadeClosure(log[k])
          /\ SameActivation(log[i], log[k])) => SameCellWhileOpen(i, k)

\* C26 witness: the second closure over register 2 was created after the Jump
\* closed the cell of the first, and holds a cell of its own, Open
C26_Witness ==
  \E i, k \in DOMAIN log :
    /\ i < k /\ MadeClosure(log[i]) /\ MadeClosure(log[k])
    /\ log[i].proto = "PFresh" /\ log[k].proto = "PFresh"
    /\ log[k].post.cells[NewClosure(log[i]).uv[1]] = ClosedCell(Nil)
    /\ log[k].post.cells[NewClosure(log[k]).uv[1]].st = "Open"
    /\ NewClosure(log[k]).uv[1] # NewClosure(log[i]).uv[1]

\* C26 witness: two closures of one activation hold the same open cell
C26_WitnessShared ==
  \E i, k \in DOMAIN log :
    /\ i < k /\ MadeClosure(log[i]) /\ MadeClosure(log[k])
    /\ SameActivation(log[i], log[k])
    /\ NewClosure(log[k]).uv[1] = NewClosure(log[i]).uv[1]
    /\ log[k].post.cells[NewClosure(log[k]).uv[1]].st = "Open"

\* ------------------------------------------- closures called on two threads
\* A program hands a closure over one of its locals to the host, by a callback
\* that yields it (the local's cell stays Open on the program's thread) or by
\* returning it (the cell is Closed); the host then calls the closure on the
\* same thread or on the other one.
ShareJobs == {Job("PShare", <<CallbackV("CbYield")>>), Job("PRet", <<>>)}

Range(s) == {s[i] : i \in DOMAIN s}

\* the closures the host holds: those among the values its last step
\* delivered, and those it has called before
HostHeld ==
  {v \in Range(last.res.vals) : v.tag = "Closure"}
  \cup {jobs[i].closure : i \in {j \in DOMAIN jobs : jobs[j].closure.uv # <<>>}}

SwapArgs == {<<IntV(6)>>, <<IntV(7)>>}

\* the host calls Thread::call_closure with a closure it holds
CallHeld(t, closure, args, granularity) ==
  /\ panic = ""
  /\ seqs # <<>>
  /\ Len(seqs) < MaxSeqs + 1
  /\ Called([closure |-> closure, args |-> args], granularity,
            call_closure(Machine, t, closure, args, granularity))

NextUv ==
  \/ \E t \in HostThreads, g \in HostGranularity :
       \E job \in ShareJobs : seqs = <<>> /\ CallClosure(t, job, g)
  \/ \E s \in DOMAIN seqs : StepSequence(s)
  \/ \E t \in Threads, closure \in HostHeld, args \in SwapArgs, g \in HostGranularity :
       CallHeld(t, closure, args, g)

SpecUv == Init /\ [][NextUv]_vars

\* the threads before opcode e with the pc of the running frame past e
PcAdvanced(e) ==
  [e.pre.threads EXCEPT
     ![e.thread].frames[Len(e.pre.threads[e.thread].frames)].pc = e.pc + 1]

\* the cell a SetUpValue writes and the value it writes
WrittenCell(e) == At(FrameFunction(e.pre, e.thread).uv, e.code.dest)
WrittenValue(e) == FrameReg(e.pre, e.thread, e.code.source)

\* SetUpValue on an Open(t, i) cell stored the value in t.stack[i] and nothing
\* else; on a Closed cell it replaced the cell's value and nothing else
UpValueSet(e) ==
  LET cell == e.pre.cells[WrittenCell(e)]
  IN  /\ e.ctl = "next"
      /\ IF cell.st = "Open"
         THEN /\ e.post.threads =
                   [PcAdvanced(e) EXCEPT
                      ![cell.thread].stack = Put(@, cell.ind, WrittenValue(e))]
              /\ e.post.cells = e.pre.cells
         ELSE /\ e.post.threads = PcAdvanced(e)
              /\ e.post.cells =
                   [e.pre.cells EXCEPT ![WrittenCell(e)] = ClosedCell(WrittenValue(e))]

\* C27: SetUpValue by a closure running on any thread, on a cell Open(t, i),
\* sets t.stack[i] to the written value and changes no other stack slot of any
\* thread and no cell state; on a Closed cell it changes only that cell's
\* value; a following GetUpValue of the cell from any thread reads that value.
C27_SetUpValueOwner ==
  /\ \A i \in DOMAIN log : log[i].op = "SetUpValue" => UpValueSet(log[i])
  /\ ReadsSeeWrites(last.pre.written, log)

\* a GetUpValue of the last slice, run on thread `reader`, delivered the value
\* that a SetUpValue run on thread `writer` had stored in the cell, in state st
ReadAcross(writer, reader, st) ==
  \E s \in DOMAIN seqs : \E i \in DOMAIN log :
    /\ s < last.seq /\ seqs[s].thread = writer /\ seqs[s].mode = "done"
    /\ seqs[last.seq].thread = reader
    /\ IsRead(log[i]) /\ log[i].thread = reader
    /\ ReadCell(log[i]) \in DOMAIN last.pre.written
    /\ log[i].pre.cells[ReadCell(log[i])].st = st
    /\ ReadValue(log[i]) = jobs[s].args[1]
    /\ ReadValue(log[i]) = last.pre.written[ReadCell(log[i])].v

\* C27 witness: the closure run on the second thread stored a value in the
\* stack slot of the first thread, and the closure run on the first read it
C27_Witness ==
  /\ ReadAcross(2, 1, "Open")
  /\ cells[1] = OpenCell(1, 2)
  /\ \E i \in DOMAIN log :
       /\ log[i].op = "SetUpValue" /\ log[i].thread = 1
       /\ At(log[i].post.threads[1].stack, 2) = WrittenValue(log[i])

\* C27 witness: written on the first thread, read on the second, cell Open
C27_WitnessOther == ReadAcross(1, 2, "Open")

\* C27 witness: the same with the cell Closed
C27_WitnessClosed == ReadAcross(2, 1, "Closed")

\* a Self opcode of the last slice, applied to a table
IsSelf(e) ==
  /\ e.op \in {"SelfR", "SelfC"}
  /\ FrameReg(e.pre, e.thread, e.code.table).tag = "Table"

\* the key of the variant: the value of register `key` for SelfR, the constant
\* at index `key` for SelfC
SelfKey(e) ==
  IF e.op = "SelfR" THEN FrameReg(e.pre, e.thread, e.code.key)
  ELSE At(Protos(e.proto).constants, e.code.key)

\* C28: SelfR sets R[base+1] to R[table] and R[base] to the table's entry under
\* the key held in register `key`, SelfC uses the constant at index `key`; in
\* both the table is the one R[table] held before R[base], R[base+1] changed.
C28_SelfKey ==
  \A i \in DOMAIN log :
    IsSelf(log[i]) =>
      /\ log[i].ctl = "next"
      /\ FrameReg(log[i].post, log[i].thread, log[i].code.base + 1) =
           FrameReg(log[i].pre, log[i].thread, log[i].code.table)
      /\ FrameReg(log[i].post, log[i].thread, log[i].code.base) =
           get(FrameReg(log[i].pre, log[i].thread, log[i].code.table), SelfKey(log[i]))

\* what holds of the code: the claim with the key of SelfR taken from the
\* constants as well, the table read before the writes
C28_SelfConstantKey ==
  \A i \in DOMAIN log :
    IsSelf(log[i]) =>
      /\ log[i].ctl = "next"
      /\ FrameReg(log[i].post, log[i].thread, log[i].code.base + 1) =
           FrameReg(log[i].pre, log[i].thread, log[i].code.table)
      /\ FrameReg(log[i].post, log[i].thread, log[i].code.base) =
           get(FrameReg(log[i].pre, log[i].thread, log[i].code.table),
               At(Protos(log[i].proto).constants, log[i].code.key))

\* SelfC with base = table put the table in R[base+1] and its entry in R[base]
C28_AliasRead ==
  \E i \in DOMAIN log :
    /\ log[i].op = "SelfC" /\ log[i].code.base = log[i].code.table
    /\ FrameReg(log[i].post, log[i].thread, 1) = TableV(1)
    /\ FrameReg(log[i].post, log[i].thread, 0) = IntV(11)

\* the bottom-most frame of every thread with frames is a call boundary
BottomIsBoundary(snap) ==
  \A t \in Threads :
    snap.threads[t].frames # <<>> => snap.threads[t].frames[1].frame_return = CallBoundary

\* the last host operation stepped the continuation of the top Callback frame
\* and the continuation reported an error, so unwind ran
UnwindRan ==
  /\ last.act = "step_callback"
  /\ ContStep(Last(last.pre.threads[1].frames).callback).kind = "Err"

\* unwind popped the frames down to and including the topmost call boundary
PoppedToBoundary(t) ==
  \E k \in DOMAIN last.pre.threads[t].frames :
    /\ last.pre.threads[t].frames[k].frame_return = CallBoundary
    /\ \A j \in (k + 1)..Len(last.pre.threads[t].frames) :
         last.pre.threads[t].frames[j].frame_return.kind = "Upper"
    /\ threads[t].frames = SubSeq(last.pre.threads[t].frames, 1, k - 1)

\* C29: in every reachable state with a non-empty frame stack the bottom-most
\* frame has frame_return CallBoundary, so whenever unwind runs it finds a
\* CallBoundary frame before the frame stack is exhausted.
C29_BottomFrameIsBoundary ==
  /\ \A snap \in Visited : BottomIsBoundary(snap)
  /\ UnwindRan => (last.res.kind = "Err" /\ PoppedToBoundary(1))

\* C29 witness: unwind ran from a Callback frame that returns to a frame
\* above, and stopped at the call boundary under it
C29_Witness ==
  /\ UnwindRan
  /\ Len(last.pre.threads[1].frames) >= 2
  /\ Last(last.pre.threads[1].frames).frame_return.kind = "Upper"
  /\ PoppedToBoundary(1)

\* C29 witness: a tail call from the call-boundary frame left a Yield frame as
\* the bottom-most frame, itself a call boundary
C29_WitnessTailCall ==
  /\ Len(threads[1].frames) = 1
  /\ threads[1].frames[1].frame_type = "Yield"
  /\ threads[1].frames[1].frame_return = CallBoundary

\* an opcode of the last slice that calls a function: it sets up the frame of
\* a closure, or runs a callback, which may leave a Callback or Yield frame
CallsFunction(e) == e.op \in {"Call", "TailCall", "GenericForCall"}

\* every cell that is Open(t, i) in `post` has its slot inside t's stack, with
\* the value the slot had in `pre`
SlotsStable(pre, post) ==
  \A c \in DOMAIN post.cells :
    post.cells[c].st = "Open" =>
      /\ post.cells[c].ind < Len(post.threads[post.cells[c].thread].stack)
      /\ At(post.threads[post.cells[c].thread].stack, post.cells[c].ind) =
           At(pre.threads[post.cells[c].thread].stack, post.cells[c].ind)

\* C30: while a cell is Open(t, i) no frame pushed later on thread t by Call,
\* TailCall, GenericForCall, call_closure or a callback frame changes
\* t.stack[i] or leaves i at or beyond the stack length, unless the cell has
\* been closed first.  The programs are as the compiler emits them: the
\* registers of a call lie above the locals in scope, and a block whose locals
\* are captured ends with a closing Jump.
C30_OpenSlotStable ==
  /\ \A i \in DOMAIN log : CallsFunction(log[i]) => SlotsStable(log[i].pre, log[i].post)
  /\ last.act = "call" => SlotsStable(last.pre, Now)

\* C30 witness: the second GenericForCall of a loop wrote the slot of the loop
\* variable after the Jump at the end of the body had closed the cell of the
\* first iteration over its value
C30_Witness ==
  \E i \in DOMAIN log :
    /\ log[i].op = "GenericForCall" /\ log[i].proto = "PForIn"
    /\ \E c \in DOMAIN log[i].pre.cells :
         /\ log[i].pre.cells[c] = ClosedCell(IntV(1))
         /\ FrameReg(log[i].post, log[i].thread, 5) # IntV(1)

\* C30 witness: a frame set up by Call above a register with an open cell
C30_WitnessCall ==
  \E i \in DOMAIN log :
    /\ log[i].op = "Call" /\ log[i].cb = "Closure"
    /\ \E c \in DOMAIN log[i].post.cells : log[i].post.cells[c].st = "Open"

\* C30 witness: call_closure on a thread that holds an open cell
C30_WitnessCallClosure ==
  /\ last.act = "call" /\ panic = "" /\ Len(seqs) > 1
  /\ \E c \in DOMAIN cells : cells[c].st = "Open"

\* the last host operation was a step of the newest resumable that ended it
\* with a value, and the value was not yielded by a callback
FinishedWithoutYield ==
  /\ last.act = "step" /\ last.seq = Len(seqs)
  /\ last.res.kind = "Finish"
  /\ (log # <<>> => log[Len(log)].cb # "Yield")

\* the index in `frames` of the topmost call-boundary frame, 0 if there is none
RECURSIVE BoundaryIndex(_)
BoundaryIndex(frames) ==
  IF frames = <<>> THEN 0
  ELSE IF Last(frames).frame_return = CallBoundary THEN Len(frames)
       ELSE BoundaryIndex(Pop(frames))

\* the thread is as it was when the resumable was created: sequence_closure
\* pushed the closure at index L and its frame as frame F + 1, and since then
\* that frame or the frame a tail call put in its place is the topmost call
\* boundary
BackAtCreation(t) ==
  LET k == BoundaryIndex(last.pre.threads[t].frames)
  IN  /\ Len(threads[t].frames) = k - 1
      /\ Len(threads[t].stack) = last.pre.threads[t].frames[k].bottom

\* C31: when a call_closure resumable created on a thread with stack length L
\* and frame count F finishes with a value that no Yield produced, the thread
\* has frame count F and stack length L again (no frames and an empty stack
\* when it started empty), whether the call-boundary frame ended by opcode
\* Return or by a tail call to a callback that returns at once or through a
\* continuation.
C31_FinishRestoresThread ==
  /\ (FinishedWithoutYield /\ Len(seqs) = 1) =>
       (threads[1].frames = <<>> /\ threads[1].stack = <<>>)
  /\ (FinishedWithoutYield /\ last.pre.seqs[last.seq].mode = "thread") =>
       BackAtCreation(seqs[last.seq].thread)

\* the last host operation stepped a resumable S1 after every resumable
\* created later on its thread, at least one, had ended
SteppedAfterLaterEnded ==
  /\ last.act = "step"
  /\ \E s2 \in DOMAIN last.pre.seqs : s2 > last.seq
  /\ \A s2 \in DOMAIN last.pre.seqs :
       (s2 > last.seq /\ last.pre.seqs[s2].thread = last.pre.seqs[last.seq].thread)
         => last.pre.seqs[s2].mode = "done"

\* C32: when resumable S2 is created on a thread after an unfinished
\* resumable S1 and is driven until it ends, with a value, a yielded value or
\* an error, a step of S1 afterwards meets no frame mismatch.
C32_EarlierResumableSteps ==
  SteppedAfterLaterEnded => panic # FrameMismatch

\* the key k of a thread's open_upvalues map lies in the register region of a
\* Lua frame that is on the thread's frame stack
InLiveLuaFrame(th, k) ==
  \E i \in DOMAIN th.frames :
    /\ th.frames[i].frame_type = "Lua"
    /\ th.frames[i].base <= k
    /\ k < th.frames[i].top

OpenKeysLive(snap) ==
  \A t \in Threads : \A k \in DOMAIN snap.threads[t].open_upvalues :
    InLiveLuaFrame(snap.threads[t], k)

\* C33: in every reachable state every key k of a thread's open_upvalues map
\* lies in the register region (base <= k < top) of a Lua frame still on that
\* thread's frame stack, so no open upvalue at or above the bottom of a frame
\* removed by Return, TailCall or unwind remains.
C33_OpenKeysInLiveFrames ==
  /\ \A snap \in Visited : OpenKeysLive(snap)
  /\ \A i \in DOMAIN log :
       (Closes(log[i]) /\ log[i].op # "Jump") =>
         \A k \in DOMAIN log[i].post.threads[log[i].thread].open_upvalues :
           k < CloseDepth(log[i])

\* an opcode of the last slice removed a frame that had an open upvalue while
\* a frame below it keeps one
RemovedWithOpen(e) ==
  /\ \E k \in DOMAIN e.pre.threads[e.thread].open_upvalues : k >= CloseDepth(e)
  /\ e.post.threads[e.thread].open_upvalues # EmptyMap

\* C33 witness: a Return removed a frame with an open upvalue; the caller's
\* open upvalue stays
C33_Witness ==
  \E i \in DOMAIN log : log[i].op = "Return" /\ RemovedWithOpen(log[i])

\* C33 witness: a TailCall removed a frame with an open upvalue
C33_WitnessTailCall ==
  \E i \in DOMAIN log :
    /\ log[i].op = "TailCall"
    /\ \E k \in DOMAIN log[i].pre.threads[log[i].thread].open_upvalues :
         k >= CloseDepth(log[i])

\* C33 witness: unwind removed frames with an open upvalue
C33_WitnessUnwind ==
  \E i \in DOMAIN log :
    /\ log[i].op = "StepCallback" /\ log[i].cb = "Err"
    /\ \E k \in DOMAIN log[i].pre.threads[log[i].thread].open_upvalues :
         k >= CloseDepth(log[i])

\* the number of frames of the running thread before and after an opcode
DepthBefore(e) == Len(e.pre.threads[e.thread].frames)
DepthAfter(e) == Len(e.post.threads[e.thread].frames)

\* opcode j of the last slice is where the callee of the Call at i returned to
\* the calling frame: the first opcode after which the frame count is back at
\* the caller's, with the dispatcher restarting from the calling frame
ReturnedAt(i, j) ==
  /\ log[i].op = "Call"
  /\ i <= j
  /\ log[j].ctl = "start"
  /\ DepthAfter(log[j]) = DepthBefore(log[i])
  /\ \A k \in i..(j - 1) : DepthAfter(log[k]) > DepthBefore(log[i])

\* an opcode between i and j wrote an upvalue open on a slot below the
\* function slot of the Call at i
WroteBelow(i, j) ==
  \E k \in i..j :
    /\ log[k].op = "SetUpValue"
    /\ log[k].pre.cells[WrittenCell(log[k])].st = "Open"
    /\ log[k].pre.cells[WrittenCell(log[k])].thread = log[i].thread
    /\ log[k].pre.cells[WrittenCell(log[k])].ind < CalleeSlot(log[i])

CallerKept(i, j) ==
  /\ log[j].post.threads[log[i].thread].frames = FramesUnder(log[i])
  /\ (~WroteBelow(i, j)) =>
       Slice(log[j].post.threads[log[i].thread].stack, 0, CalleeSlot(log[i])) =
         Slice(log[i].pre.threads[log[i].thread].stack, 0, CalleeSlot(log[i]))

\* the continuation of a callback called by a Call returned its values in a
\* later step: the Callback frame is popped, the frames under it and the slots
\* below the function slot, the Callback frame's bottom, stay
ContinuationReturned(e) ==
  /\ e.op = "StepCallback" /\ e.cb = "Return"
  /\ Last(e.pre.threads[e.thread].frames).frame_return.kind = "Upper"

CallerResumed(e) ==
  /\ e.post.threads[e.thread].frames = Pop(e.pre.threads[e.thread].frames)
  /\ Slice(e.post.threads[e.thread].stack, 0, Last(e.pre.threads[e.thread].frames).bottom) =
       Slice(e.pre.threads[e.thread].stack, 0, Last(e.pre.threads[e.thread].frames).bottom)

\* C34: a Call from a Lua frame followed by the callee's complete execution and
\* return (closure or callback, fixed or variable result count) leaves every
\* stack slot below the function slot, the calling frame's bottom, base, top
\* and frame_return and every frame below it unchanged, and the calling frame's
\* pc is one past the Call; the slots are compared when the callee wrote no
\* upvalue open on one of them.
C34_CallKeepsCaller ==
  /\ \A i \in DOMAIN log : \A j \in DOMAIN log : ReturnedAt(i, j) => CallerKept(i, j)
  /\ \A i \in DOMAIN log : ContinuationReturned(log[i]) => CallerResumed(log[i])

\* C34 witness: a closure called with a variable result count ran and returned
C34_Witness ==
  \E i \in DOMAIN log : \E j \in DOMAIN log :
    /\ ReturnedAt(i, j) /\ i < j /\ ~WroteBelow(i, j)
    /\ log[j].op = "Return"
    /\ is_variable(log[i].code.returns)
    /\ CalleeSlot(log[i]) > 0

\* C34 witness: a closure called with a fixed result count ran and returned
C34_WitnessFixed ==
  \E i \in DOMAIN log : \E j \in DOMAIN log :
    /\ ReturnedAt(i, j) /\ i < j /\ ~WroteBelow(i, j)
    /\ ~is_variable(log[i].code.returns)
    /\ CalleeSlot(log[i]) > 0

\* C34 witness: a callback returned its values to the Call
C34_WitnessCallback ==
  \E i \in DOMAIN log :
    /\ ReturnedAt(i, i) /\ log[i].cb = "Return"
    /\ CalleeSlot(log[i]) > 0

\* C34 witness: the continuation of a called callback returned in a later step
C34_WitnessContinuation ==
  \E i \in DOMAIN log :
    /\ ContinuationReturned(log[i])
    /\ Last(log[i].pre.threads[log[i].thread].frames).bottom > 0

\* C34 witness: the callee wrote an upvalue open on a slot of the caller
C34_WitnessWrote ==
  \E i \in DOMAIN log : \E j \in DOMAIN log : ReturnedAt(i, j) /\ WroteBelow(i, j)

====
